---- MODULE Spec2Model ----
(***************************************************************************)
(* Model of the scrape orchestration layer of job-search-buddy:            *)
(*   - AsyncRateLimiter.acquire          (src/jobscraper/src/agent_runner.py)*)
(*   - AgentRunner.run_agent_with_retry  (src/jobscraper/src/agent_runner.py)*)
(*   - scrape_sources / scrape_source    (src/jobscraper/src/main.py)       *)
(*   - normalize_url / create_records    (src/jobscraper/src/airtable_client.py)*)
(*                                                                         *)
(* Time is kept relative to "now": the deque of the limiter holds, for     *)
(* each entry ts, its age now - ts, and a sleeper holds the time it still  *)
(* has to sleep.  Tick advances the loop clock by one unit.  The tests of  *)
(* the code translate one to one: ts <= now - W is age >= W, and           *)
(* ts + W - now is W - age.                                                *)
(***************************************************************************)
EXTENDS Integers, Sequences, FiniteSets, TLC

VARIABLES
    \* ---- AsyncRateLimiter (one shared instance, _rate_limiter)
    timestamps,   \* self._timestamps: ages of the entries, oldest first
    lock,         \* self._lock: 0 when free, else the caller holding it
    lpc,          \* position of each caller inside acquire()
    wake,         \* time each sleeping caller still has to sleep
    admitted,     \* history: ages (< WindowSeconds) of the admitted calls
    \* ---- AgentRunner.run_agent_with_retry (one call)
    rpc,          \* position of the call
    attempt,      \* loop variable attempt
    last_error,   \* last_error: 0 for None, else the id of the caught error
    opCalls,      \* history: number of run_agent_streamed invocations
    opErrors,     \* history: what each invocation did, in order
    raised,       \* the error the call ended with: [kind, cause]
    delays,       \* history: the delays slept, in order
    acquires,     \* history: number of calls of _rate_limiter.acquire()
    \* ---- scrape_sources / scrape_source
    hasColumn,    \* per source: the record has a URL in the column
    mpc,          \* position of scrape_sources
    tpc,          \* per task: position of scrape_source
    tattempt,     \* per task: loop variable attempt of scrape_source
    first,        \* per task, history: what the first cycle ended in
    result,       \* per task: what gather holds for it
    firstDone,    \* history: the task that completed first, 0 before that
    all_records,  \* the list scrape_sources returns
    reported,     \* the sources reported in a "Scrape Error" panel
    \* ---- AirtableClient.create_records
    spc,          \* position of create_records
    store,        \* the rows of the Airtable table, in order
    store0,       \* history: the table when create_records was called
    records,      \* the argument records
    existing_links_normalized,
    new_records,  \* the records kept for writing
    skipped_count,
    created,      \* the rows batch_create has returned
    written,      \* number of kept records already sent
    chunkFailed,  \* history: a chunk write has failed
    report,       \* the returned dict, or NoReport
    \* ---- callers of acquire() that call it a bounded number of times
    calls,        \* per caller, history: the calls of acquire() it has made
    waited,       \* history: the current call of caller Runner has had to sleep
    \* ---- _parse_records
    copy,         \* the module whose _parse_records is called
    output_text,  \* the argument output_text
    ppc,          \* position of the call
    parsed,       \* what the call ended with
    \* ---- normalize_url
    link,         \* the argument url
    upc,          \* number of times normalize_url has been applied
    normalized,   \* normalize_url(url)
    renormalized, \* normalize_url(normalize_url(url))
    \* ---- main() of main.py under asyncio.run
    env,          \* the environment and config.py: which settings are there
    npc,          \* position of main()
    sources,      \* sources: per row, the columns that hold a URL
    client,       \* client is not None
    job_records,  \* all_records of main(): the results of the phases so far
    ended,        \* how the run ended: [how, error]
    pendingCancel,  \* main_task.cancel() is requested and not yet delivered
    interruptedAt,  \* history: the position of main() when SIGINT arrived
    \* ---- one caller that calls acquire() one call after the other
    clock,        \* loop.time() since the limiter was created
    admitTimes,   \* history: the clock at each admission, in order
    \* ---- main() of cleanup_duplicates.py
    cenv,         \* --dry-run is given, the Airtable settings are complete
    cpc,          \* position of main()
    ctable,       \* the rows of the offers table
    fetched,      \* all_records
    to_delete,    \* the ids select_records_to_delete returned
    response,     \* what the user typed at the prompt
    deleted,      \* history: the ids handed to batch_delete calls that returned
    deleteCalls,  \* history: the number of batch_delete calls
    \* ---- the source tasks of one scrape_sources call and their limiters
    limiters,     \* _timestamps of each limiter object, as ages
    xpc,          \* position of each source task
    xwake,        \* time left of each task's sleep in acquire()
    started,      \* history: the extraction calls started inside the window
    \* ---- one source task: scrape_source around run_agent_with_retry
    cyc,          \* attempt of scrape_source
    kpc,          \* position of scrape_source
    invocations,  \* history: the number of run_agent_streamed calls
    \* ---- the sync block of main() and other callers of create_records
    reads,        \* history: the number of table.all calls of create_records
    caller,       \* who calls create_records: main() or another caller
    \* ---- AirtableClient.batch_update_records
    updates,      \* the argument updates
    bpc,          \* position of the call
    sent,         \* history: the chunks handed to table.batch_update, in order
    outcomes,     \* history: per chunk, whether the call returned or raised
    results,      \* results
    \* ---- _call_llm of scoring.py
    max_attempts, \* the argument max_attempts
    lattempt,     \* attempt of the for loop
    lpos,         \* position of the call
    llmCalls,     \* history: the outcomes of client.chat.completions.create, in order
    llast_error,  \* last_error: the number of the call that raised it, 0 for None
    lresult,      \* what the call ended with
    \* ---- score_records of scoring.py
    record_ids,   \* the argument record_ids: per id, what get_record returns for it
    prefs,        \* profile.preferences
    qenv,         \* the profile files load, OPENAI_API_KEY is set
    qpc,          \* position of score_records
    qi,           \* the place of record_id in record_ids
    qupdates,     \* updates
    llmFor,       \* history: the places for which _call_llm was called
    \* ---- run_jobboards of pydantic_sandbox.py
    jurls,        \* the argument urls
    semaphore,    \* the value of semaphore
    jpc,          \* position of each _process_jobboard task
    jlinks,       \* links, of each task
    gpc,          \* position of run_jobboards
    peak,         \* history: the most boards in collect_job_links at once
    \* ---- load_sources_with_fallback of sources_loader.py
    agentRun,     \* what the run of the Sources Loader Agent gives
    loaded,       \* what load_sources_from_airtable returned or raised
    fpc,          \* position of load_sources_with_fallback
    returned,     \* what load_sources_with_fallback returned or raised
    \* ---- AirtableClient._normalize_record of airtable_client.py
    nrecord,      \* the argument record
    zpc,          \* position of _normalize_record
    nresult       \* what _normalize_record returned or raised

limVars == <<timestamps, lock, lpc, wake, admitted>>
retryVars == <<rpc, attempt, last_error, opCalls, opErrors, raised, delays, acquires>>
scrapeVars == <<hasColumn, mpc, tpc, tattempt, first, result, firstDone,
                all_records, reported>>
syncVars == <<spc, store, store0, records, existing_links_normalized, new_records,
              skipped_count, created, written, chunkFailed, report>>
liveVars == <<calls, waited>>
parseVars == <<copy, output_text, ppc, parsed>>
urlVars == <<link, upc, normalized, renormalized>>
mainVars == <<env, npc, sources, client, job_records, ended, pendingCancel, interruptedAt>>
seqVars == <<clock, admitTimes>>
cleanVars == <<cenv, cpc, ctable, fetched, to_delete, response, deleted, deleteCalls>>
sharedVars == <<limiters, xpc, xwake, started>>
cycleVars == <<cyc, kpc, invocations>>
ioVars == <<reads, caller>>
updVars == <<updates, bpc, sent, outcomes, results>>
llmVars == <<max_attempts, lattempt, lpos, llmCalls, llast_error, lresult>>
scoreVars == <<record_ids, prefs, qenv, qpc, qi, qupdates, llmFor>>
boardVars == <<jurls, semaphore, jpc, jlinks, gpc, peak>>
loadVars == <<agentRun, loaded, fpc, returned>>
normVars == <<nrecord, zpc, nresult>>
vars == <<limVars, retryVars, scrapeVars, syncVars, liveVars, parseVars, urlVars, mainVars,
          seqVars, cleanVars, sharedVars, cycleVars, ioVars, updVars, llmVars, scoreVars, boardVars, loadVars, normVars>>

\* what the steps of one component leave alone
outsideLimiter == <<retryVars, scrapeVars, syncVars, liveVars, parseVars, urlVars, mainVars, seqVars,
    cleanVars, sharedVars, cycleVars, ioVars, updVars, llmVars, scoreVars, boardVars, loadVars, normVars>>
outsideRetry == <<scrapeVars, syncVars, liveVars, parseVars, urlVars, mainVars, seqVars,
    cleanVars, sharedVars, cycleVars, ioVars, updVars, llmVars, scoreVars, boardVars, loadVars, normVars>>
outsideScrape == <<limVars, retryVars, syncVars, liveVars, parseVars, urlVars, mainVars, seqVars,
    cleanVars, sharedVars, cycleVars, ioVars, updVars, llmVars, scoreVars, boardVars, loadVars, normVars>>
outsideSync == <<limVars, retryVars, scrapeVars, liveVars, parseVars, urlVars, mainVars, seqVars,
    cleanVars, sharedVars, cycleVars, ioVars, updVars, llmVars, scoreVars, boardVars, loadVars, normVars>>
outsideAcquire == <<retryVars, scrapeVars, syncVars, parseVars, urlVars, mainVars, seqVars,
    cleanVars, sharedVars, cycleVars, ioVars, updVars, llmVars, scoreVars, boardVars, loadVars, normVars>>
outsideUrl == <<limVars, retryVars, scrapeVars, syncVars, liveVars, parseVars, mainVars, seqVars,
    cleanVars, sharedVars, cycleVars, ioVars, updVars, llmVars, scoreVars, boardVars, loadVars, normVars>>
outsideMain == <<limVars, retryVars, liveVars, parseVars, urlVars, seqVars,
    cleanVars, sharedVars, cycleVars, ioVars, updVars, llmVars, scoreVars, boardVars, loadVars, normVars>>
outsideSequential == <<retryVars, scrapeVars, syncVars, liveVars, parseVars, urlVars, mainVars,
    cleanVars, sharedVars, cycleVars, ioVars, updVars, llmVars, scoreVars, boardVars, loadVars, normVars>>
outsideClean == <<limVars, retryVars, scrapeVars, syncVars, liveVars, parseVars, urlVars,
    mainVars, seqVars, sharedVars, cycleVars, ioVars, updVars, llmVars, scoreVars, boardVars, loadVars, normVars>>
outsideShared == <<limVars, retryVars, scrapeVars, syncVars, liveVars, parseVars, urlVars,
    mainVars, seqVars, cleanVars, cycleVars, ioVars, updVars, llmVars, scoreVars, boardVars, loadVars, normVars>>
outsideCycle == <<scrapeVars, syncVars, liveVars, parseVars, urlVars,
    mainVars, seqVars, cleanVars, sharedVars, ioVars, updVars, llmVars, scoreVars, boardVars, loadVars, normVars>>
outsideBlock == <<limVars, retryVars, scrapeVars, liveVars, parseVars, urlVars, mainVars,
    seqVars, cleanVars, sharedVars, cycleVars, updVars, llmVars, scoreVars, boardVars, loadVars, normVars>>
outsideUpdate == <<limVars, retryVars, scrapeVars, syncVars, liveVars, parseVars, urlVars,
    mainVars, seqVars, cleanVars, sharedVars, cycleVars, ioVars, llmVars, scoreVars, boardVars, loadVars, normVars>>
outsideLlm == <<limVars, retryVars, scrapeVars, syncVars, liveVars, parseVars, urlVars,
    mainVars, seqVars, cleanVars, sharedVars, cycleVars, ioVars, updVars, scoreVars, boardVars, loadVars, normVars>>
outsideScore == <<limVars, retryVars, scrapeVars, syncVars, liveVars, parseVars, urlVars,
    mainVars, seqVars, cleanVars, sharedVars, cycleVars, ioVars, updVars, llmVars, boardVars, loadVars, normVars>>
outsideBoards == <<limVars, retryVars, scrapeVars, syncVars, liveVars, parseVars, urlVars,
    mainVars, seqVars, cleanVars, sharedVars, cycleVars, ioVars, updVars, llmVars, scoreVars, loadVars, normVars>>
outsideLoad == <<limVars, retryVars, scrapeVars, syncVars, liveVars, parseVars, urlVars,
    mainVars, seqVars, cleanVars, sharedVars, cycleVars, ioVars, updVars, llmVars, scoreVars, boardVars, normVars>>
outsideNormalize == <<limVars, retryVars, scrapeVars, syncVars, liveVars, parseVars, urlVars,
    mainVars, seqVars, cleanVars, sharedVars, cycleVars, ioVars, updVars, llmVars, scoreVars,
    boardVars, loadVars>>
outsideParse == <<limVars, retryVars, scrapeVars, syncVars, liveVars, urlVars, mainVars, seqVars,
    cleanVars, sharedVars, cycleVars, ioVars, updVars, llmVars, scoreVars, boardVars, loadVars, normVars>>

Min(a, b) == IF a < b THEN a ELSE b
Max(a, b) == IF a > b THEN a ELSE b
\* the sequences over S of length at most n
SeqsUpTo(S, n) == UNION {[1..k -> S] : k \in 0..n}

(***************************************************************************)
(* AsyncRateLimiter                                                        *)
(***************************************************************************)
\* Bounds of the model.  max_requests and window_seconds are read from the
\* configuration; the model checks the limiter for small values of both.
NumCallers == 2
MaxRequests == 2
WindowSeconds == 2

Callers == 1..NumCallers
\* the caller of the limiter that is the call run_agent_with_retry
Runner == CHOOSE p \in Callers : \A q \in Callers : p <= q

\* the deque left as it is: no entry is ever dropped
PurgeNothing(q) == q
\* entries dropped one time unit before they leave the window
RECURSIVE PurgeEarly(_)
PurgeEarly(q) ==
    IF q # <<>> /\ Head(q) >= WindowSeconds - 1 THEN PurgeEarly(Tail(q)) ELSE q
\* while self._timestamps and self._timestamps[0] <= window_start: popleft()
RECURSIVE PurgeExpired(_)
PurgeExpired(q) ==
    IF q # <<>> /\ Head(q) >= WindowSeconds THEN PurgeExpired(Tail(q)) ELSE q

\* if len(self._timestamps) < self.max_requests
HasRoomOffByOne(q) == Len(q) <= MaxRequests
HasRoom(q) == Len(q) < MaxRequests

\* wait_time = self._timestamps[0] + self.window_seconds - now, then max(.., 0.0)
WaitTime(q) == Max(WindowSeconds - Head(q), 0)

LimInit ==
    /\ timestamps = <<>>
    /\ lock = 0
    /\ lpc = [p \in Callers |-> "idle"]
    /\ wake = [p \in Callers |-> 0]
    /\ admitted = <<>>

\* a caller enters acquire(): it reaches "async with self._lock"
Enter(p) ==
    /\ lpc[p] \in {"idle", "admitted"}
    /\ lpc' = [lpc EXCEPT ![p] = "enter"]
    /\ UNCHANGED <<timestamps, lock, wake, admitted>>

\* async with self._lock: the lock is taken when it is free
LockAcquire(p) ==
    /\ lpc[p] = "enter"
    /\ lock = 0
    /\ lock' = p
    /\ lpc' = [lpc EXCEPT ![p] = "locked"]
    /\ UNCHANGED <<timestamps, wake, admitted>>

\* the sleep inside the with block: the lock is kept while sleeping
CheckSleepsLocked(p) ==
    /\ lpc[p] = "locked"
    /\ lock = p
    /\ LET purged == PurgeExpired(timestamps) IN
        IF HasRoom(purged)
        THEN /\ timestamps' = Append(purged, 0)
             /\ admitted' = Append(admitted, 0)
             /\ lpc' = [lpc EXCEPT ![p] = "admitted"]
             /\ wake' = wake
             /\ lock' = 0
        ELSE /\ timestamps' = purged
             /\ wake' = [wake EXCEPT ![p] = WaitTime(purged)]
             /\ lpc' = [lpc EXCEPT ![p] = "sleeping"]
             /\ admitted' = admitted
             /\ lock' = p

\* the body of the with block, lines 89-100: no await inside, the lock is
\* released on both ways out
Check(p) ==
    /\ lpc[p] = "locked"
    /\ lock = p
    /\ LET purged == PurgeExpired(timestamps) IN
        IF HasRoom(purged)
        THEN /\ timestamps' = Append(purged, 0)
             /\ admitted' = Append(admitted, 0)
             /\ lpc' = [lpc EXCEPT ![p] = "admitted"]
             /\ wake' = wake
        ELSE /\ timestamps' = purged
             /\ wake' = [wake EXCEPT ![p] = WaitTime(purged)]
             /\ lpc' = [lpc EXCEPT ![p] = "sleeping"]
             /\ admitted' = admitted
    /\ lock' = 0

\* await asyncio.sleep(max(wait_time, 0.0)) is over: back to the top of the loop
Wake(p) ==
    /\ lpc[p] = "sleeping"
    /\ wake[p] = 0
    /\ lpc' = [lpc EXCEPT ![p] = "enter"]
    /\ UNCHANGED <<timestamps, lock, wake, admitted>>

\* ages of the history that are still inside the window (now - W, now]
RECURSIVE AgeHistory(_)
AgeHistory(h) ==
    IF h = <<>> THEN <<>>
    ELSE IF Head(h) + 1 >= WindowSeconds THEN AgeHistory(Tail(h))
         ELSE <<Head(h) + 1>> \o AgeHistory(Tail(h))

\* loop.time() advances by one unit
LimTick ==
    /\ timestamps' = [i \in DOMAIN timestamps |-> Min(timestamps[i] + 1, WindowSeconds)]
    /\ wake' = [p \in Callers |-> Max(wake[p] - 1, 0)]
    /\ admitted' = AgeHistory(admitted)
    /\ UNCHANGED <<lock, lpc>>

\* ---- the callers of the program: each calls acquire() a bounded number of
\* times (one call for each attempt of run_agent_with_retry)
MaxCalls == 2

LiveInit ==
    /\ calls = [p \in Callers |-> 0]
    /\ waited = FALSE

\* one more call of acquire() by caller p
Call(p) ==
    /\ calls[p] < MaxCalls
    /\ Enter(p)
    /\ calls' = [calls EXCEPT ![p] = @ + 1]
    /\ waited' = IF p = Runner THEN FALSE ELSE waited

\* the steps of a call, with the history of its sleeps
CallLock(p) == LockAcquire(p) /\ UNCHANGED liveVars
CallCheck(p) ==
    /\ Check(p)
    /\ waited' = IF p = Runner THEN waited \/ lpc'[p] = "sleeping" ELSE waited
    /\ UNCHANGED calls
CallWake(p) == Wake(p) /\ UNCHANGED liveVars
Tick == LimTick /\ UNCHANGED liveVars

\* ---- one caller, Runner, that calls acquire() SeqCalls times, each call
\* after the one before has returned, on a fresh limiter; the clock is
\* followed up to MaxClock
SeqCalls == 5
MaxClock == 5

SeqInit ==
    /\ clock = 0
    /\ admitTimes = <<>>

\* the next call of acquire()
SeqCall ==
    /\ Len(admitTimes) < SeqCalls
    /\ Enter(Runner)
    /\ UNCHANGED seqVars

SeqLock == LockAcquire(Runner) /\ UNCHANGED seqVars

\* lines 89-100; on "return" the call is admitted at the time of the clock
SeqCheck ==
    /\ Check(Runner)
    /\ admitTimes' = IF lpc'[Runner] = "admitted" THEN Append(admitTimes, clock)
                     ELSE admitTimes
    /\ UNCHANGED clock

SeqWake == Wake(Runner) /\ UNCHANGED seqVars

\* loop.time() advances by one unit
SeqTick ==
    /\ clock < MaxClock
    /\ LimTick
    /\ clock' = clock + 1
    /\ UNCHANGED admitTimes

\* ---- the source tasks of one scrape_sources call.  Each call of
\* run_agent_with_task makes its own AgentRunner (line 354); the limiter a
\* runner calls is the one run_agent_with_retry names at line 181.
\* asyncio.Lock.acquire() does not suspend when the lock is free, and the
\* body of the with block has no await, so a task never finds the lock held:
\* one pass of the loop of acquire() is one step of the event loop.
ModuleLimiter == 0
\* a limiter made by each AgentRunner for itself
LimiterOfRunner(p) == p
\* await _rate_limiter.acquire(): the module-level object of lines 105-108
LimiterOf(p) == ModuleLimiter
Limiters == {LimiterOf(p) : p \in Callers}

SharedInit ==
    /\ limiters = [l \in Limiters |-> <<>>]
    /\ xpc = [p \in Callers |-> "idle"]
    /\ xwake = [p \in Callers |-> 0]
    /\ started = <<>>

\* one pass of the loop of acquire() by task p, lines 88-102; on "return"
\* run_agent_streamed is called in the same step (line 183)
AcquirePass(p) ==
    LET l == LimiterOf(p)
        purged == PurgeExpired(limiters[l])
    IN IF HasRoom(purged)
       THEN /\ limiters' = [limiters EXCEPT ![l] = Append(purged, 0)]
            /\ started' = Append(started, [by |-> p, age |-> 0])
            /\ xpc' = [xpc EXCEPT ![p] = "running"]
            /\ xwake' = xwake
       ELSE /\ limiters' = [limiters EXCEPT ![l] = purged]
            /\ xwake' = [xwake EXCEPT ![p] = WaitTime(purged)]
            /\ xpc' = [xpc EXCEPT ![p] = "sleeping"]
            /\ started' = started

\* run_agent_with_task: runner = AgentRunner(), then the next attempt of
\* run_agent_with_retry reaches acquire()
TaskAcquire(p) ==
    /\ xpc[p] = "idle"
    /\ AcquirePass(p)

\* await asyncio.sleep(max(wait_time, 0.0)) is over: the next pass
TaskWake(p) ==
    /\ xpc[p] = "sleeping"
    /\ xwake[p] = 0
    /\ AcquirePass(p)

\* run_agent_streamed returns or raises: the task is between two attempts,
\* between two cycles, or done
ExtractionEnds(p) ==
    /\ xpc[p] = "running"
    /\ xpc' = [xpc EXCEPT ![p] = "idle"]
    /\ UNCHANGED <<limiters, xwake, started>>

\* the extraction calls started in (now - W, now], one unit later
RECURSIVE AgeStarted(_)
AgeStarted(h) ==
    IF h = <<>> THEN <<>>
    ELSE IF Head(h).age + 1 >= WindowSeconds THEN AgeStarted(Tail(h))
         ELSE <<[Head(h) EXCEPT !.age = @ + 1]>> \o AgeStarted(Tail(h))

\* loop.time() advances by one unit
SharedTick ==
    /\ limiters' = [l \in Limiters |->
                      [i \in DOMAIN limiters[l] |-> Min(limiters[l][i] + 1, WindowSeconds)]]
    /\ xwake' = [p \in Callers |-> Max(xwake[p] - 1, 0)]
    /\ started' = AgeStarted(started)
    /\ UNCHANGED xpc

(***************************************************************************)
(* AgentRunner.run_agent_with_retry                                        *)
(***************************************************************************)
\* RATE_LIMIT_MAX_RETRIES, RATE_LIMIT_BASE_DELAY_SECONDS and
\* RATE_LIMIT_JITTER_SECONDS are read from the configuration; the model
\* checks small values.
MaxRetries == 2
BaseDelay == 1
JitterMax == 1

NoError == [kind |-> "None", id |-> 0, cause |-> 0]

RECURSIVE Pow2(_)
Pow2(n) == IF n = 0 THEN 1 ELSE 2 * Pow2(n - 1)

\* for attempt in range(RATE_LIMIT_MAX_RETRIES + 1)
InRangeShort(a) == a < MaxRetries
InRange(a) == a < MaxRetries + 1

\* if attempt == RATE_LIMIT_MAX_RETRIES: break
IsLastAttempt(a) == a = MaxRetries

\* the same delay after every attempt (no 2 ** attempt)
DelaysConstant(a) == {BaseDelay + j : j \in 0..JitterMax}
\* RATE_LIMIT_BASE_DELAY_SECONDS * (2 ** attempt) + random.uniform(0, JITTER)
Delays(a) == {BaseDelay * Pow2(a) + j : j \in 0..JitterMax}

\* raise RuntimeError("OpenAI rate limit retries exhausted") from last_error
Exhausted(cause) == [kind |-> "RuntimeError", id |-> 0, cause |-> cause]

RetryInit ==
    /\ rpc = "loop"
    /\ attempt = 0
    /\ last_error = 0
    /\ opCalls = 0
    /\ opErrors = <<>>
    /\ raised = NoError
    /\ delays = <<>>
    /\ acquires = 0

\* await _rate_limiter.acquire(): the call enters acquire()
RetryAcquire ==
    /\ rpc = "loop"
    /\ InRange(attempt)
    /\ Enter(Runner)
    /\ rpc' = "acquiring"
    /\ acquires' = acquires + 1
    /\ UNCHANGED <<attempt, last_error, opCalls, opErrors, raised, delays>>

\* acquire() has returned: run_agent_streamed is invoked
OpStart ==
    /\ rpc = "acquiring"
    /\ lpc[Runner] = "admitted"
    /\ rpc' = "running"
    /\ opCalls' = opCalls + 1
    /\ UNCHANGED <<attempt, last_error, opErrors, raised, delays, acquires>>
    /\ UNCHANGED limVars

\* return await self.run_agent_streamed(...)
OpReturns ==
    /\ rpc = "running"
    /\ rpc' = "returned"
    /\ opErrors' = Append(opErrors, "ok")
    /\ UNCHANGED <<attempt, last_error, opCalls, raised, delays, acquires>>
    /\ UNCHANGED limVars

\* except RateLimitError as exc: lines 184-195
OpRaisesRateLimit ==
    /\ rpc = "running"
    /\ opErrors' = Append(opErrors, "RateLimitError")
    /\ last_error' = opCalls
    /\ IF IsLastAttempt(attempt)
       THEN /\ rpc' = "raised"
            /\ raised' = Exhausted(opCalls)
            /\ UNCHANGED <<delays, limVars>>
       ELSE /\ \E d \in Delays(attempt) :
                 /\ delays' = Append(delays, d)
                 /\ wake' = [wake EXCEPT ![Runner] = d]
            /\ rpc' = "backoff"
            /\ raised' = raised
            /\ UNCHANGED <<timestamps, lock, lpc, admitted>>
    /\ UNCHANGED <<attempt, opCalls, acquires>>

\* the next iteration begins while the sleep is still running (the sleep is
\* not awaited)
BackoffDoneEarly ==
    /\ rpc = "backoff"
    /\ attempt' = attempt + 1
    /\ IF InRange(attempt + 1)
       THEN rpc' = "loop" /\ raised' = raised
       ELSE rpc' = "raised" /\ raised' = Exhausted(last_error)
    /\ UNCHANGED <<last_error, opCalls, opErrors, delays, acquires>>
    /\ UNCHANGED limVars

\* await asyncio.sleep(delay) is over: the next iteration of the for loop,
\* or, when the range is used up, the raise after the loop
BackoffDone ==
    /\ rpc = "backoff"
    /\ wake[Runner] = 0
    /\ attempt' = attempt + 1
    /\ IF InRange(attempt + 1)
       THEN rpc' = "loop" /\ raised' = raised
       ELSE rpc' = "raised" /\ raised' = Exhausted(last_error)
    /\ UNCHANGED <<last_error, opCalls, opErrors, delays, acquires>>
    /\ UNCHANGED limVars

\* any exception handled as the RateLimitError is (except Exception as exc
\* in the place of except RateLimitError as exc)
OpRaisesOtherRetried ==
    /\ rpc = "running"
    /\ opErrors' = Append(opErrors, "Exception")
    /\ last_error' = opCalls
    /\ IF IsLastAttempt(attempt)
       THEN /\ rpc' = "raised"
            /\ raised' = Exhausted(opCalls)
            /\ UNCHANGED <<delays, limVars>>
       ELSE /\ \E d \in Delays(attempt) :
                 /\ delays' = Append(delays, d)
                 /\ wake' = [wake EXCEPT ![Runner] = d]
            /\ rpc' = "backoff"
            /\ raised' = raised
            /\ UNCHANGED <<timestamps, lock, lpc, admitted>>
    /\ UNCHANGED <<attempt, opCalls, acquires>>

\* except Exception: raise
OpRaisesOther ==
    /\ rpc = "running"
    /\ rpc' = "raised"
    /\ opErrors' = Append(opErrors, "Exception")
    /\ raised' = [kind |-> "Exception", id |-> opCalls, cause |-> 0]
    /\ UNCHANGED <<attempt, last_error, opCalls, delays, acquires>>
    /\ UNCHANGED limVars


(***************************************************************************)
(* scrape_sources and scrape_source                                        *)
(***************************************************************************)
NumSources == 3
\* the most tasks the gate of section 4.5 would let run at once
ConcurrencyBound == 2
\* max_retries = 1  # Retry once on failure
ScrapeMaxRetries == 1

Sources == 1..NumSources

\* relevant_sources = [s for s in sources if s.get("fields", {}).get(column_name)]
RECURSIVE Relevant(_)
Relevant(n) ==
    IF n = 0 THEN <<>>
    ELSE IF hasColumn[n] THEN Append(Relevant(n - 1), n) ELSE Relevant(n - 1)

relevant_sources == Relevant(NumSources)
Tasks == 1..Len(relevant_sources)

\* what one cycle (run_agent_with_task, then _parse_records) can end in:
\*   "records"       final_output parses to a non-empty list
\*   "empty"         no final_output, unparsable output or an empty list
\*   "Transport"     asyncio.TimeoutError or ConnectionError
\*   "RuntimeError"  RuntimeError, raised by run_agent_with_retry when the
\*                   retries are exhausted and by run_agent_streamed
\*   "Exception"     any other exception of the backend
Record(src, n) == [Source |-> src, n |-> n]
\* the lists the backend yields in the model: one record in the first cycle,
\* two in the second
RecordLists(src, a) ==
    {IF a = 0 THEN <<Record(src, 1)>> ELSE <<Record(src, 2), Record(src, 1)>>}

\* except (asyncio.TimeoutError, ConnectionError, RuntimeError) as e
Caught(kind) == kind \in {"Transport", "RuntimeError"}

\* for attempt in range(max_retries + 1)
ScrapeInRangeLong(a) == a < ScrapeMaxRetries + 2
ScrapeInRange(a) == a < ScrapeMaxRetries + 1

\* ---- one source task: the for loop of scrape_source (lines 320-350)
\* around run_agent_with_task, whose run_agent_with_retry is the loop above
CycleInit ==
    /\ cyc = 0
    /\ kpc = "cycle"
    /\ invocations = 0

\* what scrape_source can see of an exception that left run_agent_with_retry:
\* the RuntimeError of line 199, or whatever run_agent_streamed raised
ErrorKinds(err) ==
    IF err.kind = "RuntimeError" THEN {"RuntimeError"}
    ELSE {"Transport", "RuntimeError", "Exception"}

\* the steps of run_agent_with_retry inside a cycle; each call of
\* run_agent_streamed is counted
CycAcquire == kpc = "cycle" /\ RetryAcquire /\ UNCHANGED cycleVars
CycOpStart ==
    /\ kpc = "cycle"
    /\ OpStart
    /\ invocations' = invocations + 1
    /\ UNCHANGED <<cyc, kpc>>
CycOpReturns == kpc = "cycle" /\ OpReturns /\ UNCHANGED cycleVars
CycOpRaisesRateLimit == kpc = "cycle" /\ OpRaisesRateLimit /\ UNCHANGED cycleVars
CycOpRaisesOther == kpc = "cycle" /\ OpRaisesOther /\ UNCHANGED cycleVars
CycBackoffDone == kpc = "cycle" /\ BackoffDone /\ UNCHANGED cycleVars
CycLock == LockAcquire(Runner) /\ UNCHANGED <<retryVars, cycleVars>>
CycCheck == Check(Runner) /\ UNCHANGED <<retryVars, cycleVars>>
CycWake == Wake(Runner) /\ UNCHANGED <<retryVars, cycleVars>>
CycTick == LimTick /\ UNCHANGED <<retryVars, cycleVars>>

\* the next iteration calls run_agent_with_task again: a new AgentRunner and
\* a new run_agent_with_retry; after the last iteration, "return []"
SourceNext ==
    IF ScrapeInRange(cyc + 1)
    THEN /\ cyc' = cyc + 1
         /\ kpc' = "cycle"
         /\ rpc' = "loop"
         /\ attempt' = 0
         /\ last_error' = 0
         /\ opCalls' = 0
         /\ opErrors' = <<>>
         /\ raised' = NoError
         /\ delays' = <<>>
         /\ acquires' = 0
    ELSE /\ kpc' = "done"
         /\ UNCHANGED <<cyc, retryVars>>

\* lines 327-336: records: return records
SourceRecords ==
    /\ kpc = "cycle"
    /\ rpc = "returned"
    /\ kpc' = "done"
    /\ UNCHANGED <<cyc, invocations, retryVars, limVars>>

\* lines 337-341: no records: the next iteration
SourceEmpty ==
    /\ kpc = "cycle"
    /\ rpc = "returned"
    /\ SourceNext
    /\ UNCHANGED <<invocations, limVars>>

\* lines 343-348: a caught error: return [] on the last attempt, else continue
SourceCaught ==
    /\ kpc = "cycle"
    /\ rpc = "raised"
    /\ \E k \in ErrorKinds(raised) : Caught(k)
    /\ IF cyc = ScrapeMaxRetries
       THEN kpc' = "done" /\ UNCHANGED <<cyc, retryVars>>
       ELSE SourceNext
    /\ UNCHANGED <<invocations, limVars>>

\* an exception the except clause does not name leaves scrape_source
SourceRaises ==
    /\ kpc = "cycle"
    /\ rpc = "raised"
    /\ \E k \in ErrorKinds(raised) : ~Caught(k)
    /\ kpc' = "failed"
    /\ UNCHANGED <<cyc, invocations, retryVars, limVars>>

\* asyncio.gather(*tasks, return_exceptions=True)
ReturnExceptionsOff == FALSE
ReturnExceptions == TRUE

Returned(v) == [kind |-> "returned", value |-> v]
Raised(k) == [kind |-> "raised", value |-> <<k>>]
NoResult == [kind |-> "none", value |-> <<>>]

\* for i, res in enumerate(results): gather keeps the order of its arguments
RECURSIVE Others(_, _)
Others(n, i) ==
    IF n = 0 THEN <<>>
    ELSE IF n = i THEN Others(n - 1, i) ELSE Append(Others(n - 1, i), n)
\* the order of a collection that takes the first completed task first
CollectOrderCompletion == <<firstDone>> \o Others(Len(relevant_sources), firstDone)
CollectOrder == [i \in Tasks |-> i]

\* lines 283-299: all_records.extend(res) unless isinstance(res, Exception)
RECURSIVE Extend(_, _)
Extend(order, res) ==
    IF order = <<>> THEN <<>>
    ELSE (IF res[Head(order)].kind = "returned" THEN res[Head(order)].value ELSE <<>>)
         \o Extend(Tail(order), res)

\* lines 285-293: one "Scrape Error" panel for each result that is an exception
RECURSIVE Panels(_, _)
Panels(order, res) ==
    IF order = <<>> THEN <<>>
    ELSE (IF res[Head(order)].kind = "raised" THEN <<relevant_sources[Head(order)]>> ELSE <<>>)
         \o Panels(Tail(order), res)

ScrapeInitWith(h) ==
    /\ hasColumn = h
    /\ mpc = "start"
    /\ tpc = [i \in Sources |-> "pending"]
    /\ tattempt = [i \in Sources |-> 0]
    /\ first = [i \in Sources |-> "none"]
    /\ result = [i \in Sources |-> NoResult]
    /\ firstDone = 0
    /\ all_records = <<>>
    /\ reported = <<>>

ScrapeInit == \E h \in [Sources -> BOOLEAN] : ScrapeInitWith(h)

\* lines 265-280: filter, return [] when nothing is left, else create the
\* coroutines and await gather
ScrapeStart ==
    /\ mpc = "start"
    /\ mpc' = IF relevant_sources = <<>> THEN "returned" ELSE "gathering"
    /\ UNCHANGED <<hasColumn, tpc, tattempt, first, result, firstDone,
                   all_records, reported>>

\* the event loop starts a task: scrape_source runs up to its first await
TaskStart(i) ==
    /\ mpc # "start"
    /\ i \in Tasks
    /\ tpc[i] = "pending"
    /\ tpc' = [tpc EXCEPT ![i] = "running"]
    /\ UNCHANGED <<hasColumn, mpc, tattempt, first, result, firstDone,
                   all_records, reported>>

\* the task ends: gather records its result; without return_exceptions the
\* first exception is raised in scrape_sources at once
Finish(i, res) ==
    /\ tpc' = [tpc EXCEPT ![i] = "done"]
    /\ result' = [result EXCEPT ![i] = res]
    /\ firstDone' = IF firstDone = 0 THEN i ELSE firstDone
    /\ mpc' = IF res.kind = "raised" /\ ~ReturnExceptions /\ mpc = "gathering"
              THEN "raised" ELSE mpc

\* the next iteration of the for loop, or "return []" after it
NextCycle(i) ==
    IF ScrapeInRange(tattempt[i] + 1)
    THEN /\ tattempt' = [tattempt EXCEPT ![i] = tattempt[i] + 1]
         /\ UNCHANGED <<tpc, result, firstDone, mpc>>
    ELSE /\ Finish(i, Returned(<<>>))
         /\ UNCHANGED tattempt

\* the cycle yields records and the loop goes on (no return in the loop)
CycleRecordsContinue(i) ==
    /\ i \in Tasks
    /\ tpc[i] = "running"
    /\ first' = [first EXCEPT ![i] = IF tattempt[i] = 0 THEN "records" ELSE @]
    /\ NextCycle(i)
    /\ UNCHANGED <<hasColumn, all_records, reported>>

\* lines 327-336: the cycle yields records: return records
CycleRecords(i) ==
    /\ i \in Tasks
    /\ tpc[i] = "running"
    /\ first' = [first EXCEPT ![i] = IF tattempt[i] = 0 THEN "records" ELSE @]
    /\ \E recs \in RecordLists(relevant_sources[i], tattempt[i]) : Finish(i, Returned(recs))
    /\ UNCHANGED <<hasColumn, tattempt, all_records, reported>>

\* lines 337-341: no records: fall through to the next iteration
CycleEmpty(i) ==
    /\ i \in Tasks
    /\ tpc[i] = "running"
    /\ first' = [first EXCEPT ![i] = IF tattempt[i] = 0 THEN "empty" ELSE @]
    /\ NextCycle(i)
    /\ UNCHANGED <<hasColumn, all_records, reported>>

\* lines 343-348: a caught error: return [] on the last attempt, else continue
CycleCaught(i, kind) ==
    /\ i \in Tasks
    /\ tpc[i] = "running"
    /\ Caught(kind)
    /\ first' = [first EXCEPT ![i] = IF tattempt[i] = 0 THEN kind ELSE @]
    /\ IF tattempt[i] = ScrapeMaxRetries
       THEN Finish(i, Returned(<<>>)) /\ UNCHANGED tattempt
       ELSE NextCycle(i)
    /\ UNCHANGED <<hasColumn, all_records, reported>>

\* an exception the except clause does not name leaves scrape_source
CycleRaises(i, kind) ==
    /\ i \in Tasks
    /\ tpc[i] = "running"
    /\ ~Caught(kind)
    /\ first' = [first EXCEPT ![i] = IF tattempt[i] = 0 THEN kind ELSE @]
    /\ Finish(i, Raised(kind))
    /\ UNCHANGED <<hasColumn, tattempt, all_records, reported>>

\* gather returns when every task is done; lines 283-301 build the list
Collect ==
    /\ mpc = "gathering"
    /\ \A i \in Tasks : tpc[i] = "done"
    /\ all_records' = Extend(CollectOrder, result)
    /\ reported' = Panels(CollectOrder, result)
    /\ mpc' = "returned"
    /\ UNCHANGED <<hasColumn, tpc, tattempt, first, result, firstDone>>


(***************************************************************************)
(* normalize_url                                                           *)
(*                                                                         *)
(* A URL string is a sequence of tokens: each of the delimiters            *)
(* ":" "/" "?" "#" ";" is a token of its own, and a run of other           *)
(* characters is one word token.  <<>> is the empty string.                *)
(***************************************************************************)
\* first and last position of a token of set d in s, 0 when there is none
FirstIndex(s, d) ==
    IF \E i \in DOMAIN s : s[i] \in d
    THEN CHOOSE i \in DOMAIN s : s[i] \in d /\ \A j \in 1..(i - 1) : s[j] \notin d
    ELSE 0
LastIndex(s, d) ==
    IF \E i \in DOMAIN s : s[i] \in d
    THEN CHOOSE i \in DOMAIN s : s[i] \in d /\ \A j \in (i + 1)..Len(s) : s[j] \notin d
    ELSE 0

From(s, i) == SubSeq(s, i, Len(s))
Upto(s, i) == SubSeq(s, 1, i)

\* words made of scheme characters only (letters, digits, "+", "-", ".") that
\* start with a letter
SchemeWords == {"https", "HTTPS", "http", "a.com", "b.com", "job", "apply"}
\* str.lower() on a word
Lower(w) == IF w = "HTTPS" THEN "https" ELSE w
\* urllib.parse.uses_netloc and uses_params, as far as the words above go
UsesNetloc == {<<>>, <<"http">>, <<"https">>}
UsesParams == {<<>>, <<"http">>, <<"https">>}

\* s split at position i: the part before it and the part after it; the
\* whole of s and nothing when i = 0
Before(s, i) == IF i = 0 THEN s ELSE Upto(s, i - 1)
After(s, i) == IF i = 0 THEN <<>> ELSE From(s, i + 1)

\* urlsplit: i = url.find(':'); the scheme is url[:i] when it is made of
\* scheme characters, lower-cased
HasScheme(url) ==
    FirstIndex(url, {":"}) > 1
    /\ \A j \in 1..(FirstIndex(url, {":"}) - 1) : url[j] \in SchemeWords
SchemeOf(url) ==
    IF HasScheme(url)
    THEN [j \in 1..(FirstIndex(url, {":"}) - 1) |-> Lower(url[j])]
    ELSE <<>>
AfterScheme(url) == IF HasScheme(url) THEN After(url, FirstIndex(url, {":"})) ELSE url

\* urlsplit: if url[:2] == '//': netloc, url = _splitnetloc(url, 2)
HasNetloc(u) == Len(u) >= 2 /\ u[1] = "/" /\ u[2] = "/"
NetlocEnd(u) == FirstIndex(From(u, 3), {"/", "?", "#"})
NetlocOf(u) == IF HasNetloc(u) THEN Before(From(u, 3), NetlocEnd(u)) ELSE <<>>
AfterNetloc(u) ==
    IF ~HasNetloc(u) THEN u
    ELSE IF NetlocEnd(u) = 0 THEN <<>> ELSE From(From(u, 3), NetlocEnd(u))

\* urlsplit: url, fragment = url.split('#', 1); url, query = url.split('?', 1)
NoFragment(u) == Before(u, FirstIndex(u, {"#"}))
FragmentOf(u) == After(u, FirstIndex(u, {"#"}))
NoQuery(u) == Before(u, FirstIndex(u, {"?"}))
QueryOf(u) == After(u, FirstIndex(u, {"?"}))

\* _splitparams: i = url.find(';', url.rfind('/')), or url.find(';')
ParamsAt(u) ==
    IF LastIndex(u, {"/"}) = 0 THEN FirstIndex(u, {";"})
    ELSE IF FirstIndex(From(u, LastIndex(u, {"/"})), {";"}) = 0 THEN 0
    ELSE LastIndex(u, {"/"}) + FirstIndex(From(u, LastIndex(u, {"/"})), {";"}) - 1
\* urlparse: if scheme in uses_params and ';' in url
PathOf(scheme, u) == IF scheme \in UsesParams THEN Before(u, ParamsAt(u)) ELSE u
ParamsOf(scheme, u) == IF scheme \in UsesParams THEN After(u, ParamsAt(u)) ELSE <<>>

\* the url after the scheme and the netloc are split off
Rest(url) == AfterNetloc(AfterScheme(url))

\* urllib.parse.urlparse
UrlParse(url) ==
    [scheme |-> SchemeOf(url),
     netloc |-> NetlocOf(AfterScheme(url)),
     path |-> PathOf(SchemeOf(url), NoQuery(NoFragment(Rest(url)))),
     params |-> ParamsOf(SchemeOf(url), NoQuery(NoFragment(Rest(url)))),
     query |-> QueryOf(NoFragment(Rest(url))),
     fragment |-> FragmentOf(Rest(url))]

\* urllib.parse.urlunparse((scheme, netloc, path, '', '', ''))
UrlUnparse(scheme, netloc, path) ==
    LET withNetloc ==
            netloc # <<>>
            \/ (scheme # <<>> /\ scheme \in UsesNetloc
                /\ ~(Len(path) >= 2 /\ path[1] = "/" /\ path[2] = "/"))
        p1 == IF withNetloc /\ path # <<>> /\ path[1] # "/" THEN <<"/">> \o path ELSE path
        u == IF withNetloc THEN <<"/", "/">> \o netloc \o p1 ELSE path
    IN IF scheme # <<>> THEN scheme \o <<":">> \o u ELSE u

\* normalize_url with the query string kept (urlunparse given parsed.query)
KeepQuery(url) ==
    LET p == UrlParse(url)
    IN UrlUnparse(p.scheme, p.netloc, p.path)
           \o (IF p.query # <<>> THEN <<"?">> \o p.query ELSE <<>>)

normalize_url(url) ==
    IF url = <<>> THEN url
    ELSE LET p == UrlParse(url) IN UrlUnparse(p.scheme, p.netloc, p.path)


\* ---- normalize_url applied to a URL and to its own result
MaxUrl == 4

\* the characters of the URLs: the delimiters, a host or path word and a
\* word in capitals
UrlChars == {"HTTPS", "a.com", ":", "/", "?", "#", ";"}
\* a URL is any text up to the bound, alone or behind a scheme and a host
UrlPrefixes == {<<>>, <<"HTTPS", ":", "/", "/", "a.com">>}
Urls == {pre \o t : pre \in UrlPrefixes, t \in SeqsUpTo(UrlChars, MaxUrl)}

UrlInitWith(u) ==
    /\ link = u
    /\ upc = 0
    /\ normalized = <<>>
    /\ renormalized = <<>>

UrlInit == \E u \in Urls : UrlInitWith(u)

\* normalize_url(url)
Normalize ==
    /\ upc = 0
    /\ normalized' = normalize_url(link)
    /\ upc' = 1
    /\ UNCHANGED <<link, renormalized>>

\* normalize_url applied to a URL that is normalized already
NormalizeAgain ==
    /\ upc = 1
    /\ renormalized' = normalize_url(normalized)
    /\ upc' = 2
    /\ UNCHANGED <<link, normalized>>

(***************************************************************************)
(* _parse_records (main.py, career_sites_scraper.py, sandbox_runner.py)    *)
(*                                                                         *)
(* A text is a sequence of characters of the alphabet Chars: the brackets, *)
(* the comma, a blank, "1" for a JSON number and "x" for any character     *)
(* that starts no JSON value.                                              *)
(***************************************************************************)
MaxText == 5

Chars == {"[", "]", ",", " ", "1", "x"}

\* the values of output_text: None, a string, an object that is not a string
\* and is true (a dict, a list), one that is false (0, an empty list)
NoneText == [type |-> "None", text |-> <<>>]
StrText(t) == [type |-> "str", text |-> t]
TruthyObject == [type |-> "object", text |-> <<"x">>]
FalsyObject == [type |-> "object", text |-> <<>>]
OutputTexts ==
    {NoneText, TruthyObject, FalsyObject} \cup {StrText(t) : t \in SeqsUpTo(Chars, MaxText)}

\* not output_text: None, an empty string, an object that is false
Falsy(o) == o.type = "None" \/ o.text = <<>>
\* isinstance(output_text, str)
IsStr(o) == o.type = "str"

\* str.strip()
RECURSIVE LStrip(_)
LStrip(t) == IF t # <<>> /\ Head(t) = " " THEN LStrip(Tail(t)) ELSE t
RECURSIVE RStrip(_)
RStrip(t) == IF t # <<>> /\ t[Len(t)] = " " THEN RStrip(SubSeq(t, 1, Len(t) - 1)) ELSE t
Strip(t) == RStrip(LStrip(t))

\* str.startswith, str.endswith with a one-character argument
StartsWith(t, c) == t # <<>> /\ t[1] = c
EndsWith(t, c) == t # <<>> /\ t[Len(t)] = c

\* str.find and str.rfind: positions count from 1 here, 0 stands for -1
Find(t, c) == FirstIndex(t, {c})
RFindFirst(t, c) == FirstIndex(t, {c})
RFind(t, c) == LastIndex(t, {c})

\* ---- json.loads: the parsed value, or JSONDecodeError
JNull == [t |-> "null", items |-> <<>>]
JNum == [t |-> "num", items |-> <<>>]
JArr(items) == [t |-> "arr", items |-> items]
JFail == [ok |-> FALSE, value |-> JNull, next |-> 0]
JOk(v, n) == [ok |-> TRUE, value |-> v, next |-> n]

\* the position of the first character at or after i that is not a blank
RECURSIVE SkipWs(_, _)
SkipWs(t, i) == IF i <= Len(t) /\ t[i] = " " THEN SkipWs(t, i + 1) ELSE i

RECURSIVE ParseValue(_, _)
RECURSIVE ParseItems(_, _, _)
\* one JSON value that starts at or after position i
ParseValue(t, i) ==
    LET j == SkipWs(t, i) IN
    IF j > Len(t) THEN JFail
    ELSE IF t[j] = "1" THEN JOk(JNum, j + 1)
    ELSE IF t[j] = "[" THEN
        LET k == SkipWs(t, j + 1) IN
        IF k <= Len(t) /\ t[k] = "]" THEN JOk(JArr(<<>>), k + 1)
        ELSE ParseItems(t, j + 1, <<>>)
    ELSE JFail
\* the items of an array from position i on, up to its closing bracket
ParseItems(t, i, acc) ==
    LET v == ParseValue(t, i) IN
    IF ~v.ok THEN JFail
    ELSE LET k == SkipWs(t, v.next) IN
         IF k > Len(t) THEN JFail
         ELSE IF t[k] = "," THEN ParseItems(t, k + 1, Append(acc, v.value))
         ELSE IF t[k] = "]" THEN JOk(JArr(Append(acc, v.value)), k + 1)
         ELSE JFail

\* json.loads(candidate): one value and nothing but blanks after it
JsonLoads(t) ==
    LET v == ParseValue(t, 1) IN
    IF v.ok /\ SkipWs(t, v.next) > Len(t) THEN v ELSE JFail

\* isinstance(parsed, list)
IsList(v) == v.t = "arr"

\* ---- what a call of _parse_records ends with
ParsedNone == [kind |-> "None", value |-> JNull]
ParsedList(v) == [kind |-> "list", value |-> v]
ParseRaised == [kind |-> "raised", value |-> JNull]
NotParsed == [kind |-> "pending", value |-> JNull]

\* except json.JSONDecodeError: return None
CatchesDecodeErrorOff == FALSE
CatchesDecodeError == TRUE

\* lines 252-259 of main.py
LoadCandidate(candidate) ==
    IF ~JsonLoads(candidate).ok
    THEN (IF CatchesDecodeError THEN ParsedNone ELSE ParseRaised)
    ELSE IF IsList(JsonLoads(candidate).value)
         THEN ParsedList(JsonLoads(candidate).value)
         ELSE ParsedNone

\* main.py, lines 219-259
parse_records(o) ==
    IF Falsy(o) THEN ParsedNone
    ELSE IF ~IsStr(o) THEN ParsedNone
    ELSE LET stripped == Strip(o.text) IN
         IF StartsWith(stripped, "[") /\ EndsWith(stripped, "]")
         THEN LoadCandidate(stripped)
         ELSE LET start == Find(stripped, "[")
                  end == RFind(stripped, "]")
              IN IF start = 0 \/ end = 0 \/ end <= start
                 THEN ParsedNone
                 ELSE LoadCandidate(SubSeq(stripped, start, end))

\* career_sites_scraper.py, lines 213-253
parse_records_career(o) ==
    IF Falsy(o) THEN ParsedNone
    ELSE IF ~IsStr(o) THEN ParsedNone
    ELSE LET stripped == Strip(o.text) IN
         IF StartsWith(stripped, "[") /\ EndsWith(stripped, "]")
         THEN LoadCandidate(stripped)
         ELSE LET start == Find(stripped, "[")
                  end == RFind(stripped, "]")
              IN IF start = 0 \/ end = 0 \/ end <= start
                 THEN ParsedNone
                 ELSE LoadCandidate(SubSeq(stripped, start, end))

\* sandbox_runner.py, lines 70-105
parse_records_sandbox(o) ==
    IF Falsy(o) THEN ParsedNone
    ELSE IF ~IsStr(o) THEN ParsedNone
    ELSE LET stripped == Strip(o.text) IN
         IF StartsWith(stripped, "[") /\ EndsWith(stripped, "]")
         THEN LoadCandidate(stripped)
         ELSE LET start == Find(stripped, "[")
                  end == RFind(stripped, "]")
              IN IF start = 0 \/ end = 0 \/ end <= start
                 THEN ParsedNone
                 ELSE LoadCandidate(SubSeq(stripped, start, end))

Copies == {"main", "career_sites_scraper", "sandbox_runner"}

ParseInitWith(c, o) ==
    /\ copy = c
    /\ output_text = o
    /\ ppc = "start"
    /\ parsed = NotParsed

ParseInit == \E c \in Copies, o \in OutputTexts : ParseInitWith(c, o)

\* the call of _parse_records of module copy
Parse ==
    /\ ppc = "start"
    /\ parsed' = CASE copy = "main" -> parse_records(output_text)
                    [] copy = "career_sites_scraper" -> parse_records_career(output_text)
                    [] copy = "sandbox_runner" -> parse_records_sandbox(output_text)
    /\ ppc' = IF parsed'.kind = "raised" THEN "raised" ELSE "returned"
    /\ UNCHANGED <<copy, output_text>>

(***************************************************************************)
(* AirtableClient.create_records                                           *)
(***************************************************************************)
MaxBatch == 3
MaxStore == 1
\* the number of records the store takes in one write call
BatchLimit == 1

LinkA1 == <<"https", ":", "/", "/", "a.com", "/", "job", "/", "1">>
LinkA1Q == LinkA1 \o <<"?", "utm=x">>
LinkB2 == <<"https", ":", "/", "/", "b.com", "/", "job", "/", "2">>
LinkB2F == LinkB2 \o <<"#", "apply">>

\* a record is a mapping of field names; Link may be missing or empty
WithLink(l) == [Source |-> "s", Link |-> l]
WithoutLink == [Source |-> "s"]
Wrapped(r) == [fields |-> r]

IncomingRecords ==
    {WithLink(LinkA1Q), WithLink(LinkB2), WithLink(LinkB2F), WithLink(<<>>),
     WithoutLink, Wrapped(WithLink(LinkB2))}
StoredRows == {WithLink(LinkA1), WithLink(LinkB2F), WithoutLink}

\* record.get("Link") is truthy
HasLink(r) == "Link" \in DOMAIN r /\ r.Link # <<>>

\* the record with its Link replaced by the normalized URL
NormalizeRecordLink(r) ==
    LET f == IF "fields" \in DOMAIN r THEN r.fields ELSE r
    IN IF "Link" \in DOMAIN f THEN [f EXCEPT !.Link = normalize_url(f.Link)] ELSE f
\* _normalize_record, line 208: the inner mapping when there is a "fields" key
\* (the records of this model carry no Requirements field)
NormalizeRecord(r) == IF "fields" \in DOMAIN r THEN r.fields ELSE r

\* lines 104-108
ExistingLinks(rows) ==
    {normalize_url(rows[i].Link) : i \in {j \in DOMAIN rows : HasLink(rows[j])}}

\* a record without a Link counts as a duplicate (no "link and")
IsDuplicateOrNoLink(r, existing) ==
    ~HasLink(r) \/ normalize_url(r.Link) \in existing
\* line 121: if link and normalize_url(link) in existing_links_normalized
IsDuplicate(r, existing) ==
    HasLink(r) /\ normalize_url(r.Link) \in existing

\* lines 113-125: the records kept, and the number skipped
RECURSIVE Kept(_, _)
Kept(recs, existing) ==
    IF recs = <<>> THEN <<>>
    ELSE LET r == NormalizeRecord(Head(recs))
         IN (IF IsDuplicate(r, existing) THEN <<>> ELSE <<r>>)
                \o Kept(Tail(recs), existing)
RECURSIVE Skipped(_, _)
Skipped(recs, existing) ==
    IF recs = <<>> THEN 0
    ELSE (IF IsDuplicate(NormalizeRecord(Head(recs)), existing) THEN 1 ELSE 0)
             + Skipped(Tail(recs), existing)

NoReport == [created |-> -1, skipped |-> -1]
\* lines 143-147
Report(c, s) == [created |-> Len(c), skipped |-> s]

SyncInitWith(st, batch) ==
    /\ spc = "start"
    /\ store = st
    /\ store0 = st
    /\ records = batch
    /\ existing_links_normalized = {}
    /\ new_records = <<>>
    /\ skipped_count = 0
    /\ created = <<>>
    /\ written = 0
    /\ chunkFailed = FALSE
    /\ report = NoReport

SyncInit ==
    \E st \in SeqsUpTo(StoredRows, MaxStore), batch \in SeqsUpTo(IncomingRecords, MaxBatch) :
        SyncInitWith(st, batch)

\* lines 94-96: if not records: return
SyncNothing ==
    /\ spc = "start"
    /\ records = <<>>
    /\ spc' = "returned"
    /\ report' = Report(<<>>, 0)
    /\ UNCHANGED <<store, store0, records, existing_links_normalized, new_records,
                   skipped_count, created, written, chunkFailed>>

\* the same without the early return of lines 94-96: an empty list is
\* filtered against the existing records as well
FetchAndFilterAny ==
    /\ spc = "start"
    /\ LET existing == ExistingLinks(store)
           kept == Kept(records, existing)
           skipped == Skipped(records, existing)
       IN /\ existing_links_normalized' = existing
          /\ new_records' = kept
          /\ skipped_count' = skipped
          /\ IF kept = <<>>
             THEN spc' = "returned" /\ report' = Report(<<>>, skipped)
             ELSE spc' = "writing" /\ report' = report
    /\ UNCHANGED <<store, store0, records, created, written, chunkFailed>>

\* lines 98-141 up to the write: table.all, the index, the filter loop; with
\* nothing kept the call returns here
FetchAndFilter ==
    /\ spc = "start"
    /\ records # <<>>
    /\ LET existing == ExistingLinks(store)
           kept == Kept(records, existing)
           skipped == Skipped(records, existing)
       IN /\ existing_links_normalized' = existing
          /\ new_records' = kept
          /\ skipped_count' = skipped
          /\ IF kept = <<>>
             THEN spc' = "returned" /\ report' = Report(<<>>, skipped)
             ELSE spc' = "writing" /\ report' = report
    /\ UNCHANGED <<store, store0, records, created, written, chunkFailed>>

\* table.all raises: the exception leaves create_records
FetchFails ==
    /\ spc = "start"
    /\ records # <<>>
    /\ spc' = "raised"
    /\ UNCHANGED <<store, store0, records, existing_links_normalized, new_records,
                   skipped_count, created, written, chunkFailed, report>>

NextChunk == SubSeq(new_records, written + 1, Min(written + BatchLimit, Len(new_records)))

\* line 130, table.batch_create(new_records): the store takes the records in
\* calls of at most BatchLimit; after the last call create_records returns
WriteChunk ==
    /\ spc = "writing"
    /\ store' = store \o NextChunk
    /\ created' = created \o NextChunk
    /\ written' = written + Len(NextChunk)
    /\ IF written' = Len(new_records)
       THEN spc' = "returned" /\ report' = Report(created', skipped_count)
       ELSE spc' = "writing" /\ report' = report
    /\ UNCHANGED <<store0, records, existing_links_normalized, new_records,
                   skipped_count, chunkFailed>>

\* a write call raises: line 130 is inside no try, so the exception leaves
\* create_records
WriteChunkFails ==
    /\ spc = "writing"
    /\ chunkFailed' = TRUE
    /\ spc' = "raised"
    /\ UNCHANGED <<store, store0, records, existing_links_normalized, new_records,
                   skipped_count, created, written, report>>

(***************************************************************************)
(* AirtableClient.batch_update_records                                     *)
(***************************************************************************)
MaxUpdates == 5
\* chunk_size = 10  # Airtable API limit per request
UpdateChunkSize == 2
\* an update is {"id": ..., "fields": ...}; the model tells two of them apart
UpdateKinds == {"recA", "recB"}

UpdInitWith(u) ==
    /\ updates = u
    /\ bpc = "start"
    /\ sent = <<>>
    /\ outcomes = <<>>
    /\ results = <<>>

UpdInit == \E u \in SeqsUpTo(UpdateKinds, MaxUpdates) : UpdInitWith(u)

\* lines 186-187: if not updates: return []
UpdateNothing ==
    /\ bpc = "start"
    /\ updates = <<>>
    /\ bpc' = "returned"
    /\ UNCHANGED <<updates, sent, outcomes, results>>

\* lines 189-191: table = self._connect()
UpdateConnect ==
    /\ bpc = "start"
    /\ updates # <<>>
    /\ bpc' = "loop"
    /\ UNCHANGED <<updates, sent, outcomes, results>>

\* the number of updates the chunks so far have taken: i of line 193
Taken == IF sent = <<>> THEN 0 ELSE (Len(sent) - 1) * UpdateChunkSize + Len(sent[Len(sent)])
\* chunk = updates[i : i + chunk_size]
ChunkAt(i) == SubSeq(updates, i + 1, Min(i + UpdateChunkSize, Len(updates)))
\* for i in range(0, len(updates), chunk_size): the loop ends, return results
AfterChunk == IF Taken + Len(ChunkAt(Taken)) >= Len(updates) THEN "returned" ELSE "loop"

\* the exception of a chunk leaves batch_update_records (no try in the loop)
ChunkRaisesOut ==
    /\ bpc = "loop"
    /\ sent' = Append(sent, ChunkAt(Taken))
    /\ outcomes' = Append(outcomes, "raised")
    /\ bpc' = "raised"
    /\ UNCHANGED <<updates, results>>

\* line 196: results.extend(table.batch_update(chunk))
ChunkUpdated ==
    /\ bpc = "loop"
    /\ sent' = Append(sent, ChunkAt(Taken))
    /\ outcomes' = Append(outcomes, "ok")
    /\ results' = results \o ChunkAt(Taken)
    /\ bpc' = AfterChunk
    /\ UNCHANGED updates

\* lines 197-202: except Exception: a panel, and the next chunk
ChunkRaises ==
    /\ bpc = "loop"
    /\ sent' = Append(sent, ChunkAt(Taken))
    /\ outcomes' = Append(outcomes, "raised")
    /\ bpc' = AfterChunk
    /\ UNCHANGED <<updates, results>>

(***************************************************************************)
(* scoring.py: _call_llm                                                   *)
(***************************************************************************)
\* max_attempts: int = 3; the model checks every value up to MaxAttempts
MaxAttempts == 3
DefaultAttempts == 3

NoAnswer == [kind |-> "none", call |-> 0, cause |-> 0, text |-> <<>>]
\* response.choices[0].message.content: None or a string
Contents == {NoneText, StrText(<<>>), StrText(<<" ", "x">>), StrText(<<"x", " ">>)}
\* what a call can raise: an error of the API, or the IndexError of
\* choices[0] on an answer without choices
LlmErrors == {"APIError", "APITimeoutError", "IndexError"}
\* message.content or ""
ContentOrEmpty(c) == IF Falsy(c) THEN <<>> ELSE c.text

LlmInitWith(m) ==
    /\ max_attempts = m
    /\ lattempt = 1
    /\ lpos = "loop"
    /\ llmCalls = <<>>
    /\ llast_error = 0
    /\ lresult = NoAnswer

LlmInit == \E m \in 0..MaxAttempts : LlmInitWith(m)

\* for attempt in range(1, max_attempts + 1)
LlmInRangeLong(a) == a <= max_attempts + 1
LlmInRange(a) == a <= max_attempts

\* line 117: await client.chat.completions.create(...)
LlmCall ==
    /\ lpos = "loop"
    /\ LlmInRange(lattempt)
    /\ lpos' = "calling"
    /\ UNCHANGED <<max_attempts, lattempt, llmCalls, llast_error, lresult>>

\* lines 128-129: return message.strip()
LlmAnswers ==
    /\ lpos = "calling"
    /\ llmCalls' = Append(llmCalls, "ok")
    /\ \E c \in Contents :
          lresult' = [kind |-> "returned", call |-> Len(llmCalls) + 1, cause |-> 0,
                      text |-> Strip(ContentOrEmpty(c))]
    /\ lpos' = "returned"
    /\ UNCHANGED <<max_attempts, lattempt, llast_error>>

\* lines 130-132: except Exception: last_error = exc, await asyncio.sleep
LlmFails ==
    /\ lpos = "calling"
    /\ \E e \in LlmErrors : llmCalls' = Append(llmCalls, e)
    /\ llast_error' = Len(llmCalls) + 1
    /\ lpos' = "sleeping"
    /\ UNCHANGED <<max_attempts, lattempt, lresult>>

\* the sleep is over: the next iteration
LlmSleepDone ==
    /\ lpos = "sleeping"
    /\ lattempt' = lattempt + 1
    /\ lpos' = "loop"
    /\ UNCHANGED <<max_attempts, llmCalls, llast_error, lresult>>

\* line 133: raise RuntimeError(...) from last_error
LlmExhausted ==
    /\ lpos = "loop"
    /\ ~LlmInRange(lattempt)
    /\ lresult' = [kind |-> "RuntimeError", call |-> 0, cause |-> llast_error, text |-> <<>>]
    /\ lpos' = "raised"
    /\ UNCHANGED <<max_attempts, lattempt, llmCalls, llast_error>>

(***************************************************************************)
(* scoring.py: _apply_hard_rules and score_records                         *)
(*                                                                         *)
(* A job text is told by which keyword lists have a keyword in it; the     *)
(* preferences by which of their keyword lists are not empty, and by the   *)
(* message they set for the excluded rule.                                 *)
(***************************************************************************)
MaxIds == 2

JobText(r, e, x) == [required |-> r, experience |-> e, excluded |-> x]
\* what airtable_client.get_record(record_id) returns: a record with fields,
\* None, or a record without "fields"
Fetched(t) == [record |-> "fields", text |-> t]
NotFetched == [record |-> "None", text |-> JobText(FALSE, FALSE, FALSE)]
NoFields == [record |-> "no fields", text |-> JobText(FALSE, FALSE, FALSE)]
RecordKinds ==
    {Fetched(JobText(TRUE, TRUE, FALSE)), Fetched(JobText(FALSE, TRUE, TRUE)),
     Fetched(JobText(TRUE, FALSE, TRUE)), Fetched(JobText(TRUE, TRUE, TRUE)),
     NotFetched, NoFields}

\* lines 93-95: the messages, by default not empty
DefaultMessage == "default"
EmptyMessage == ""
Preference(r, e, x, m) ==
    [required_keywords |-> r, experience_levels |-> e, excluded_keywords |-> x,
     excluded_msg |-> m]
DefaultPreferences == Preference(TRUE, TRUE, TRUE, DefaultMessage)
Preferences ==
    {DefaultPreferences, Preference(FALSE, TRUE, TRUE, DefaultMessage),
     Preference(FALSE, FALSE, FALSE, DefaultMessage),
     Preference(TRUE, TRUE, TRUE, EmptyMessage)}

ScoringReady == [profile |-> TRUE, api_key |-> TRUE]
ScoringEnvironments == {ScoringReady, [profile |-> FALSE, api_key |-> TRUE],
                        [profile |-> TRUE, api_key |-> FALSE]}

\* _apply_hard_rules returns the message of the first rule that fails, or None
NoReason == [rule |-> "None", message |-> "None"]
Reason(rule, m) == [rule |-> rule, message |-> m]
\* lines 97-105
apply_hard_rules(text, p) ==
    IF p.required_keywords /\ ~text.required
    THEN Reason("required", DefaultMessage)
    ELSE IF p.experience_levels /\ ~text.experience
    THEN Reason("experience", DefaultMessage)
    ELSE IF p.excluded_keywords /\ text.excluded
    THEN Reason("excluded", p.excluded_msg)
    ELSE NoReason

\* if hard_rule_reason: None and the empty string are false
HasReason(reason) == reason # NoReason /\ reason.message # EmptyMessage

\* _format_update(record_id, result)
Update(i, score, why) == [id |-> i, Score |-> score, ScoreReason |-> why]
\* lines 250-255
Fallback == "Score 0: unparsable"

\* how the call of lines 243-244 can end: _call_llm raises, _parse_llm_json
\* returns None, {} (false), an object as asked for, or an object whose
\* MatchedSkills or MissingSkills is no list of strings
LlmOutcomes == {"raises", "unparsable", "empty object", "scored", "ill-formed"}

ScoreInitWith(ids, p, e) ==
    /\ record_ids = ids
    /\ prefs = p
    /\ qenv = e
    /\ qpc = "start"
    /\ qi = 1
    /\ qupdates = <<>>
    /\ llmFor = {}

ScoreInit ==
    \E ids \in SeqsUpTo(RecordKinds, MaxIds), p \in Preferences, e \in ScoringEnvironments :
        ScoreInitWith(ids, p, e)

\* lines 200-213: nothing to score, no profile, no API key: return
ScoreSkipped ==
    /\ qpc = "start"
    /\ record_ids = <<>> \/ ~qenv.profile \/ ~qenv.api_key
    /\ qpc' = "returned"
    /\ UNCHANGED <<record_ids, prefs, qenv, qi, qupdates, llmFor>>

\* lines 215-222: the loop begins
ScoreBegin ==
    /\ qpc = "start"
    /\ record_ids # <<>> /\ qenv.profile /\ qenv.api_key
    /\ qpc' = "loop"
    /\ UNCHANGED <<record_ids, prefs, qenv, qi, qupdates, llmFor>>

AtRecord == qpc = "loop" /\ qi <= Len(record_ids)
Readable(rec) == rec.record = "fields"

\* lines 223-226: no record, or no fields: continue
SkipUnreadable ==
    /\ AtRecord
    /\ ~Readable(record_ids[qi])
    /\ qi' = qi + 1
    /\ UNCHANGED <<record_ids, prefs, qenv, qpc, qupdates, llmFor>>

\* lines 228-239: a hard rule fails: the Score 0 update, continue
HardRuleUpdate ==
    /\ AtRecord
    /\ Readable(record_ids[qi])
    /\ LET reason == apply_hard_rules(record_ids[qi].text, prefs)
       IN /\ HasReason(reason)
          /\ qupdates' = Append(qupdates, Update(qi, 0, reason))
    /\ qi' = qi + 1
    /\ UNCHANGED <<record_ids, prefs, qenv, qpc, llmFor>>

\* lines 241-243: no reason: the prompt, and _call_llm is awaited
CallModel ==
    /\ AtRecord
    /\ Readable(record_ids[qi])
    /\ ~HasReason(apply_hard_rules(record_ids[qi].text, prefs))
    /\ qpc' = "llm"
    /\ llmFor' = llmFor \cup {qi}
    /\ UNCHANGED <<record_ids, prefs, qenv, qi, qupdates>>

\* lines 243-256: the answer, or the fallback when _call_llm raised or the
\* answer did not parse; ", ".join of line 186 raises TypeError on skills that
\* are no list of strings, outside the try of line 242
ModelAnswers(o) ==
    /\ qpc = "llm"
    /\ IF o = "ill-formed"
       THEN /\ qpc' = "raised"
            /\ UNCHANGED <<qi, qupdates>>
       ELSE /\ qupdates' = Append(qupdates, IF o = "scored" THEN Update(qi, "llm", "llm")
                                            ELSE Update(qi, 0, Fallback))
            /\ qpc' = "loop"
            /\ qi' = qi + 1
    /\ UNCHANGED <<record_ids, prefs, qenv, llmFor>>

\* lines 258-263: the loop is over: batch_update_records(updates) when there
\* are updates
ScoreFlush ==
    /\ qpc = "loop"
    /\ qi > Len(record_ids)
    /\ qpc' = "returned"
    /\ UNCHANGED <<record_ids, prefs, qenv, qi, qupdates, llmFor>>

(***************************************************************************)
(* pydantic_sandbox.py: run_jobboards, with collect_job_links              *)
(*                                                                         *)
(* One _process_jobboard task per URL, all passed to asyncio.gather; the   *)
(* body of each is inside "async with semaphore".  The tasks reach the     *)
(* semaphore in the order of the list and its waiters are woken first in,  *)
(* first out, so the next one to enter is the first one waiting.           *)
(***************************************************************************)
MaxBoards == 6
BoardPermits == 5

\* (url or "").strip() is empty, or not
UrlKinds == {"blank", "url"}
Boards == DOMAIN jurls

\* what agent.run gives: it raises; an output that is no list; a list of
\* links of the board; a list with a string urlparse rejects ("http://[x")
AgentOutcomes == {"raises", "no list", "links", "bad link"}

BoardInitWith(u) ==
    /\ jurls = u
    /\ semaphore = BoardPermits
    /\ jpc = [i \in DOMAIN u |-> "waiting"]
    /\ jlinks = [i \in DOMAIN u |-> "unset"]
    /\ gpc = "gather"
    /\ peak = 0

BoardInit ==
    \E n \in 0..MaxBoards, kind \in UrlKinds :
        BoardInitWith([i \in 1..n |-> IF i = 1 THEN kind ELSE "url"])

InAgent == {i \in Boards : jpc[i] = "agent"}
FirstWaiting(i) == jpc[i] = "waiting" /\ \A j \in Boards : j < i => jpc[j] # "waiting"

\* lines 212-215: the semaphore is entered; a blank URL returns at once, and
\* leaving the block gives the permit back
BlankBoard(i) ==
    /\ gpc = "gather"
    /\ FirstWaiting(i)
    /\ semaphore > 0
    /\ jurls[i] = "blank"
    /\ jpc' = [jpc EXCEPT ![i] = "done"]
    /\ UNCHANGED <<jurls, semaphore, jlinks, gpc, peak>>

\* lines 212-220 and 146-147: the semaphore is entered and agent.run awaited
BoardEnters(i) ==
    /\ gpc = "gather"
    /\ FirstWaiting(i)
    /\ semaphore > 0
    /\ jurls[i] = "url"
    /\ semaphore' = semaphore - 1
    /\ jpc' = [jpc EXCEPT ![i] = "agent"]
    /\ peak' = IF Cardinality(InAgent) + 1 > peak THEN Cardinality(InAgent) + 1 ELSE peak
    /\ UNCHANGED <<jurls, jlinks, gpc>>

\* lines 148-150: agent.run raises: the empty list; lines 222-230
AgentFails(i) ==
    /\ gpc = "gather"
    /\ jpc[i] = "agent"
    /\ jlinks' = [jlinks EXCEPT ![i] = "empty after failure"]
    /\ jpc' = [jpc EXCEPT ![i] = "done"]
    /\ semaphore' = semaphore + 1
    /\ UNCHANGED <<jurls, gpc, peak>>

\* lines 152-196 and 222-246: the output is read; urlparse(link) of line 184
\* raises ValueError on a string such as "http://[x", in no try, and the
\* exception leaves collect_job_links and the task
AgentAnswers(i, o) ==
    /\ gpc = "gather"
    /\ jpc[i] = "agent"
    /\ o \in AgentOutcomes \ {"raises"}
    /\ IF o = "bad link"
       THEN /\ jpc' = [jpc EXCEPT ![i] = "raised"]
            /\ UNCHANGED jlinks
       ELSE /\ jpc' = [jpc EXCEPT ![i] = "done"]
            /\ jlinks' = [jlinks EXCEPT ![i] = IF o = "links" THEN "links" ELSE "empty"]
    /\ semaphore' = semaphore + 1
    /\ UNCHANGED <<jurls, gpc, peak>>

\* lines 253-256: every task is over: run_jobboards returns
GatherReturns ==
    /\ gpc = "gather"
    /\ \A i \in Boards : jpc[i] = "done"
    /\ gpc' = "returned"
    /\ UNCHANGED <<jurls, semaphore, jpc, jlinks, peak>>

\* line 254: gather, without return_exceptions, raises the first exception
\* of a task; run_jobboards raises, and asyncio.run (line 260) cancels the
\* tasks that are not over
GatherRaises ==
    /\ gpc = "gather"
    /\ \E i \in Boards : jpc[i] = "raised"
    /\ gpc' = "raised"
    /\ jpc' = [i \in Boards |-> IF jpc[i] \in {"waiting", "agent"} THEN "cancelled" ELSE jpc[i]]
    /\ semaphore' = semaphore + Cardinality(InAgent)
    /\ UNCHANGED <<jurls, jlinks, peak>>

(***************************************************************************)
(* sources_loader.py: load_sources_from_airtable and                       *)
(* load_sources_with_fallback                                              *)
(***************************************************************************)
MaxSources == 3

\* the {"name", "url"} entries the loader reads from the agent's message
ParsedSources == {"parsed A", "parsed B"}
\* lines 90-96
KnownBoards == <<"Just Join IT", "No Fluff Jobs", "TheProtocol", "Pracuj.pl", "BulldogJob">>
\* lines 212-216
FallbackSources == <<"JustJoin.it", "NoFluffJobs", "TheProtocol">>

\* the run of the agent: an import, the agent or the stream raises; the
\* events set table_found; the entries appended to sources
AgentRun(r, t, s) == [raises |-> r, table_found |-> t, sources |-> s]
AgentRuns ==
    {AgentRun(r, t, s) : r \in BOOLEAN, t \in BOOLEAN, s \in SeqsUpTo(ParsedSources, MaxSources)}

\* how a call ended: not yet, or by raising (Returned(l): by returning l)
Unset == [kind |-> "unset", value |-> <<>>]
LoadRaised == [kind |-> "raised", value |-> <<>>]

LoadInitWith(run) ==
    /\ agentRun = run
    /\ loaded = Unset
    /\ fpc = "start"
    /\ returned = Unset

LoadInit == \E run \in AgentRuns : LoadInitWith(run)

\* lines 11-85 and 100-102: an exception of the run, or the table was not
\* found: load_sources_from_airtable raises
LoaderRaises ==
    /\ fpc = "start"
    /\ agentRun.raises \/ ~agentRun.table_found
    /\ loaded' = LoadRaised
    /\ fpc' = "loaded"
    /\ UNCHANGED <<agentRun, returned>>

\* lines 84-98: the entries read, or the known boards when none was read
LoaderReturns ==
    /\ fpc = "start"
    /\ ~agentRun.raises /\ agentRun.table_found
    /\ loaded' = Returned(IF Len(agentRun.sources) = 0 THEN KnownBoards ELSE agentRun.sources)
    /\ fpc' = "loaded"
    /\ UNCHANGED <<agentRun, returned>>

\* the exception of the loader is not caught
SourcesOrRaise(l) ==
    IF l = LoadRaised THEN LoadRaised
    ELSE IF l.value # <<>> THEN l ELSE Returned(FallbackSources)
\* lines 204-216: the loaded list when it is not empty; the fallback list
\* when it is empty or the loader raised
SourcesOrFallback(l) ==
    IF l = LoadRaised THEN Returned(FallbackSources)
    ELSE IF l.value # <<>> THEN l ELSE Returned(FallbackSources)

\* lines 205-207: return sources
LoadedReturned ==
    /\ fpc = "loaded"
    /\ loaded # LoadRaised /\ loaded.value # <<>>
    /\ returned' = SourcesOrFallback(loaded)
    /\ fpc' = "returned"
    /\ UNCHANGED <<agentRun, loaded>>

\* lines 208-216: the exception is caught, or the list is empty: the
\* fallback list
FallbackReturned ==
    /\ fpc = "loaded"
    /\ loaded = LoadRaised \/ loaded.value = <<>>
    /\ returned' = SourcesOrFallback(loaded)
    /\ fpc' = "returned"
    /\ UNCHANGED <<agentRun, loaded>>

(***************************************************************************)
(* airtable_client.py: AirtableClient._normalize_record                    *)
(*                                                                         *)
(* A value of the Requirements key is told by its type; a list by its      *)
(* items, a scalar by the characters of str(value).                        *)
(***************************************************************************)
MaxItems == 2

NewLine == "\n"
ReqChars == {"a", " ", NewLine}
ReqTexts == {<<>>, <<"a">>, <<" ", NewLine>>, <<"a", NewLine, "a">>, <<" ", "a">>}

Value(type, items, text) == [type |-> type, items |-> items, text |-> text]
NoneValue == Value("None", <<>>, <<>>)
StrValue(t) == Value("str", <<>>, t)
IntValue == Value("int", <<>>, <<"5">>)
DictValue(t) == Value("dict", <<>>, t)
Items == {NoneValue, IntValue} \cup {StrValue(t) : t \in {<<>>, <<"a">>, <<" ", NewLine>>, <<"a", NewLine, "a">>}}
ListValue(items) == Value("list", items, <<>>)
RequirementsValues ==
    {NoneValue, IntValue, DictValue(<<>>), DictValue(<<"a">>)}
        \cup {StrValue(t) : t \in ReqTexts}
        \cup {ListValue(items) : items \in SeqsUpTo(Items, MaxItems)}

PlainFields == [Link |-> "l"]
WithRequirements(v) == [Link |-> "l", Requirements |-> v]
NormRecords ==
    LET fields == {PlainFields} \cup {WithRequirements(v) : v \in RequirementsValues}
    IN fields \cup {[fields |-> f] : f \in fields}

\* str.strip(): blanks and line breaks at both ends
IsSpace(c) == c \in {" ", NewLine}
RECURSIVE LStripWs(_)
LStripWs(t) == IF t # <<>> /\ IsSpace(Head(t)) THEN LStripWs(Tail(t)) ELSE t
RECURSIVE RStripWs(_)
RStripWs(t) == IF t # <<>> /\ IsSpace(t[Len(t)]) THEN RStripWs(SubSeq(t, 1, Len(t) - 1)) ELSE t
StripWs(t) == RStripWs(LStripWs(t))
\* .replace("\n", " ")
ReplaceNewLines(t) == [i \in DOMAIN t |-> IF t[i] = NewLine THEN " " ELSE t[i]]
\* ", ".join(normalized)
RECURSIVE JoinComma(_)
JoinComma(texts) ==
    IF texts = <<>> THEN <<>>
    ELSE IF Len(texts) = 1 THEN texts[1]
    ELSE texts[1] \o <<",", " ">> \o JoinComma(Tail(texts))
\* line 216: str(item).strip() of the items that are not None and not blank
RECURSIVE KeptItems(_)
KeptItems(items) ==
    IF items = <<>> THEN <<>>
    ELSE LET item == Head(items)
         IN IF item.type # "None" /\ StripWs(item.text) # <<>>
            THEN <<StripWs(item.text)>> \o KeptItems(Tail(items))
            ELSE KeptItems(Tail(items))

Pop(fields) == [k \in DOMAIN fields \ {"Requirements"} |-> fields[k]]
\* lines 218-221, 228-231, 234-237
SetOrPop(fields, value) ==
    IF value # <<>> THEN [fields EXCEPT !.Requirements = StrValue(value)] ELSE Pop(fields)

\* line 208
FieldsOf(record) == IF "fields" \in DOMAIN record THEN record.fields ELSE record

\* lines 210-239; the module does not import json (lines 1-10), so
\* json.dumps of line 224 raises NameError, which "except TypeError" lets by
normalize_record(record) ==
    LET fields == FieldsOf(record)
    IN IF "Requirements" \notin DOMAIN fields THEN Returned(fields)
       ELSE LET requirements == fields.Requirements
            IN CASE requirements.type = "None" -> Returned(Pop(fields))
                 [] requirements.type = "list" ->
                      Returned(SetOrPop(fields,
                          StripWs(ReplaceNewLines(JoinComma(KeptItems(requirements.items))))))
                 [] requirements.type = "dict" -> Raised("NameError")
                 [] OTHER ->
                      Returned(SetOrPop(fields, StripWs(ReplaceNewLines(requirements.text))))

NormInitWith(r) ==
    /\ nrecord = r
    /\ zpc = "call"
    /\ nresult = NoResult

NormInit == \E r \in NormRecords : NormInitWith(r)

\* the call returns
NormalizeReturns ==
    /\ zpc = "call"
    /\ normalize_record(nrecord).kind = "returned"
    /\ nresult' = normalize_record(nrecord)
    /\ zpc' = "returned"
    /\ UNCHANGED nrecord

\* the call raises
NormalizeRaises ==
    /\ zpc = "call"
    /\ normalize_record(nrecord).kind = "raised"
    /\ nresult' = normalize_record(nrecord)
    /\ zpc' = "raised"
    /\ UNCHANGED nrecord

(***************************************************************************)
(* main() of main.py, run by asyncio.run(main())                           *)
(*                                                                         *)
(* main() runs synchronous code between its awaits: the validation, the    *)
(* fetch of the sources, and everything after the "async with" block,      *)
(* the call of create_records included.  It awaits when it enters the      *)
(* browser server and in each call of scrape_sources.                      *)
(***************************************************************************)
\* a row of the sources table is the set of its columns that hold a URL
JobBoards == "Job Boards"
CareerSites == "Career Sites"
\* the tables client.get_all_records(sources_table_id) returns in the model
SourceTables ==
    {<<>>,
     <<{JobBoards, CareerSites}>>,
     <<{JobBoards}, {JobBoards, CareerSites}>>,
     <<{CareerSites}, {}>>}
\* lines 73-80: the source of the hard-coded mode
HardcodedSources == <<{JobBoards, CareerSites}>>

\* the settings a run finds: the agents package can be imported,
\* OPENAI_API_KEY is set, AirtableConfig.is_configured() (api key, base id
\* and offers table id are all set), AIRTABLE_SOURCES_TABLE_ID is set, and
\* USE_HARDCODED_SOURCE of config.py
Environments ==
    [agents_sdk : BOOLEAN, OPENAI_API_KEY : BOOLEAN, is_configured : BOOLEAN,
     sources_table_id : BOOLEAN, USE_HARDCODED_SOURCE : BOOLEAN]
FullEnvironment ==
    [agents_sdk |-> TRUE, OPENAI_API_KEY |-> TRUE, is_configured |-> TRUE,
     sources_table_id |-> TRUE, USE_HARDCODED_SOURCE |-> FALSE]

\* how a run ends
Running == [how |-> "running", error |-> "none"]
Returns == [how |-> "returned", error |-> "none"]
Raises(e) == [how |-> "raised", error |-> e]
\* except asyncio.CancelledError: ... return
Cancelled == [how |-> "cancelled", error |-> "CancelledError"]

\* the positions of main() at which it is suspended in an await
Awaiting == {"phase1", "phase2"}
\* the positions at which it runs synchronous code
Synchronous == {"start", "validated", "ready", "scraped", "syncing"}

MainInitWith(e) ==
    /\ env = e
    /\ npc = "start"
    /\ sources = <<>>
    /\ client = FALSE
    /\ job_records = <<>>
    /\ ended = Running
    /\ pendingCancel = FALSE
    /\ interruptedAt = "none"

MainInit == \E e \in Environments : MainInitWith(e)

\* main() ends
End(how) ==
    /\ npc' = "ended"
    /\ ended' = how

\* check_agents_sdk and validate_openai_config raise RuntimeError;
\* validate_airtable_config only prints
ValidationPasses(e) == e.agents_sdk /\ e.OPENAI_API_KEY

\* line 69; a RuntimeError is caught at line 199 and raised again
Validate ==
    /\ npc = "start"
    /\ IF ValidationPasses(env)
       THEN npc' = "validated" /\ UNCHANGED ended
       ELSE End(Raises("RuntimeError"))
    /\ UNCHANGED <<env, sources, client, job_records, pendingCancel, interruptedAt>>
    /\ UNCHANGED <<scrapeVars, syncVars>>

\* lines 71-86
UseHardcoded ==
    /\ npc = "validated"
    /\ env.USE_HARDCODED_SOURCE
    /\ sources' = HardcodedSources
    /\ client' = FALSE
    /\ npc' = "ready"
    /\ UNCHANGED <<env, job_records, ended, pendingCancel, interruptedAt>>
    /\ UNCHANGED <<scrapeVars, syncVars>>

\* lines 88-97: if not airtable_enabled: ... return
NotConfigured ==
    /\ npc = "validated"
    /\ ~env.USE_HARDCODED_SOURCE
    /\ ~env.is_configured
    /\ End(Returns)
    /\ UNCHANGED <<env, sources, client, job_records, pendingCancel, interruptedAt>>
    /\ UNCHANGED <<scrapeVars, syncVars>>

\* if not sources_table_id
SourcesTableIgnored(e) == TRUE
SourcesTableSet(e) == e.sources_table_id

\* lines 101-109: the client is built; if not sources_table_id: ... return
NoSourcesTable ==
    /\ npc = "validated"
    /\ ~env.USE_HARDCODED_SOURCE
    /\ env.is_configured
    /\ ~SourcesTableSet(env)
    /\ client' = TRUE
    /\ End(Returns)
    /\ UNCHANGED <<env, sources, job_records, pendingCancel, interruptedAt>>
    /\ UNCHANGED <<scrapeVars, syncVars>>

\* lines 101-134: get_all_records returns the rows; if not sources: ... return
FetchSources ==
    /\ npc = "validated"
    /\ ~env.USE_HARDCODED_SOURCE
    /\ env.is_configured
    /\ SourcesTableSet(env)
    /\ client' = TRUE
    /\ \E t \in SourceTables :
          /\ sources' = t
          /\ IF t = <<>> THEN End(Returns) ELSE npc' = "ready" /\ UNCHANGED ended
    /\ UNCHANGED <<env, job_records, pendingCancel, interruptedAt>>
    /\ UNCHANGED <<scrapeVars, syncVars>>

\* line 110: table.all() raises; no except clause of main() names the
\* exception of the storage service
FetchSourcesFails ==
    /\ npc = "validated"
    /\ ~env.USE_HARDCODED_SOURCE
    /\ env.is_configured
    /\ SourcesTableSet(env)
    /\ client' = TRUE
    /\ End(Raises("StorageError"))
    /\ UNCHANGED <<env, sources, job_records, pendingCancel, interruptedAt>>
    /\ UNCHANGED <<scrapeVars, syncVars>>

\* a call of scrape_sources(agent, sources, column_name, ...) begins
CallScrapeSources(column_name) ==
    /\ hasColumn' = [i \in Sources |-> i <= Len(sources) /\ column_name \in sources[i]]
    /\ mpc' = "start"
    /\ tpc' = [i \in Sources |-> "pending"]
    /\ tattempt' = [i \in Sources |-> 0]
    /\ first' = [i \in Sources |-> "none"]
    /\ result' = [i \in Sources |-> NoResult]
    /\ firstDone' = 0
    /\ all_records' = <<>>
    /\ reported' = <<>>

\* lines 139-147: the server is entered and phase 1 begins
OpenServer ==
    /\ npc = "ready"
    /\ ~pendingCancel
    /\ npc' = "phase1"
    /\ CallScrapeSources(JobBoards)
    /\ UNCHANGED <<env, sources, client, job_records, ended, pendingCancel, interruptedAt>>
    /\ UNCHANGED syncVars

\* lines 145-157: phase 1 has returned, phase 2 begins
PhaseOneDone ==
    /\ npc = "phase1"
    /\ mpc = "returned"
    /\ job_records' = job_records \o all_records
    /\ npc' = "phase2"
    /\ CallScrapeSources(CareerSites)
    /\ UNCHANGED <<env, sources, client, ended, pendingCancel, interruptedAt>>
    /\ UNCHANGED syncVars

\* the server block is left while gather is still waiting for its tasks
PhaseTwoDoneEarly ==
    /\ npc = "phase2"
    /\ job_records' = job_records \o all_records
    /\ npc' = "scraped"
    /\ UNCHANGED <<env, sources, client, ended, pendingCancel, interruptedAt>>
    /\ UNCHANGED <<scrapeVars, syncVars>>

\* lines 155-164: phase 2 has returned, the server is left
PhaseTwoDone ==
    /\ npc = "phase2"
    /\ mpc = "returned"
    /\ job_records' = job_records \o all_records
    /\ npc' = "scraped"
    /\ UNCHANGED <<env, sources, client, ended, pendingCancel, interruptedAt>>
    /\ UNCHANGED <<scrapeVars, syncVars>>

\* lines 166-184: create_records is called when there are records and a
\* client; else a panel, and the summary of lines 186-197
SyncCall ==
    /\ npc = "scraped"
    /\ IF job_records # <<>> /\ client
       THEN /\ npc' = "syncing"
            /\ records' = job_records
            /\ UNCHANGED ended
       ELSE /\ End(Returns)
            /\ UNCHANGED records
    /\ UNCHANGED <<env, sources, client, job_records, pendingCancel, interruptedAt>>
    /\ UNCHANGED <<spc, store, store0, existing_links_normalized, new_records,
                   skipped_count, created, written, chunkFailed, report>>
    /\ UNCHANGED scrapeVars

\* lines 170-197: create_records has returned its report
SyncReturns ==
    /\ npc = "syncing"
    /\ spc = "returned"
    /\ End(Returns)
    /\ UNCHANGED <<env, sources, client, job_records, pendingCancel, interruptedAt>>
    /\ UNCHANGED <<scrapeVars, syncVars>>

\* line 169: the exception of create_records leaves main()
SyncRaises ==
    /\ npc = "syncing"
    /\ spc = "raised"
    /\ End(Raises("StorageError"))
    /\ UNCHANGED <<env, sources, client, job_records, pendingCancel, interruptedAt>>
    /\ UNCHANGED <<scrapeVars, syncVars>>

\* the tasks of gather that are not done are cancelled with it
CancelTasks ==
    /\ tpc' = [i \in Sources |->
                  IF i \in Tasks /\ tpc[i] # "done" /\ mpc = "gathering"
                  THEN "cancelled" ELSE tpc[i]]
    /\ mpc' = IF mpc \in {"start", "gathering"} THEN "cancelled" ELSE mpc
    /\ UNCHANGED <<hasColumn, tattempt, first, result, firstDone, all_records, reported>>

\* SIGINT while main() is suspended in scrape_sources.  The handler of
\* asyncio.run cancels the main task: gather cancels its tasks and the
\* CancelledError reaches line 207.  Without that handler (before Python
\* 3.11) KeyboardInterrupt leaves the event loop and asyncio.run cancels
\* every task: the same end for main().
InterruptAwaiting ==
    /\ npc \in Awaiting
    /\ interruptedAt = "none"
    /\ interruptedAt' = npc
    /\ CancelTasks
    /\ End(Cancelled)
    /\ UNCHANGED <<env, sources, client, job_records, pendingCancel>>
    /\ UNCHANGED syncVars

\* SIGINT while main() runs synchronous code: the handler of asyncio.run
\* only requests the cancellation, which is delivered at the next await.
\* The two outcomes: the handler of asyncio.run (Python 3.11 and later), or
\* KeyboardInterrupt raised in place, lines 214-216
InterruptOutcomes == {"cancel", "KeyboardInterrupt"}

InterruptRunning ==
    /\ npc \in Synchronous
    /\ interruptedAt = "none"
    /\ interruptedAt' = npc
    /\ \E o \in InterruptOutcomes :
          IF o = "cancel"
          THEN pendingCancel' = TRUE /\ UNCHANGED <<npc, ended>>
          ELSE End(Raises("KeyboardInterrupt")) /\ UNCHANGED pendingCancel
    /\ UNCHANGED <<env, sources, client, job_records>>
    /\ UNCHANGED <<scrapeVars, syncVars>>

\* line 139: the requested cancellation is delivered at the first await
DeliverCancel ==
    /\ npc = "ready"
    /\ pendingCancel
    /\ pendingCancel' = FALSE
    /\ End(Cancelled)
    /\ UNCHANGED <<env, sources, client, job_records, interruptedAt>>
    /\ UNCHANGED <<scrapeVars, syncVars>>

\* ---- the sync block of main(), lines 165-184, entered with any aggregate
\* and with or without a client; and create_records called by another caller
\* with any list
BlockRecords == {WithLink(LinkA1Q), WithoutLink}

IoInit ==
    /\ reads = 0
    /\ caller = "main"

\* main() has left the server block with all_records = batch; client is None
\* in the hard-coded mode
BlockInitMain(c, st, batch) ==
    /\ caller = "main"
    /\ reads = 0
    /\ SyncInitWith(st, <<>>)
    /\ env = [FullEnvironment EXCEPT !.USE_HARDCODED_SOURCE = ~c]
    /\ npc = "scraped"
    /\ sources = HardcodedSources
    /\ client = c
    /\ job_records = batch
    /\ ended = Running
    /\ pendingCancel = FALSE
    /\ interruptedAt = "none"

\* another caller is at its call client.create_records(batch)
BlockInitOther(st, batch) ==
    /\ caller = "other"
    /\ reads = 0
    /\ SyncInitWith(st, batch)
    /\ env = FullEnvironment
    /\ npc = "syncing"
    /\ sources = HardcodedSources
    /\ client = TRUE
    /\ job_records = batch
    /\ ended = Running
    /\ pendingCancel = FALSE
    /\ interruptedAt = "none"

BlockInit ==
    \E st \in SeqsUpTo(StoredRows, MaxStore), batch \in SeqsUpTo(BlockRecords, MaxBatch) :
        \/ \E c \in BOOLEAN : BlockInitMain(c, st, batch)
        \/ BlockInitOther(st, batch)

\* the steps of create_records; table.all (line 102) is counted
BlockNothing == npc = "syncing" /\ SyncNothing /\ UNCHANGED ioVars
BlockFetch == npc = "syncing" /\ FetchAndFilter /\ reads' = reads + 1 /\ UNCHANGED caller
BlockFetchFails == npc = "syncing" /\ FetchFails /\ reads' = reads + 1 /\ UNCHANGED caller
BlockWrite == npc = "syncing" /\ WriteChunk /\ UNCHANGED ioVars
BlockWriteFails == npc = "syncing" /\ WriteChunkFails /\ UNCHANGED ioVars

(***************************************************************************)
(* cleanup_duplicates.py                                                   *)
(*                                                                         *)
(* A row of the table is [id, createdTime, fields]; ids are the positions  *)
(* of the rows in the table, createdTime is a number that orders as the    *)
(* ISO time strings do, 0 for a row without createdTime (the default "").  *)
(***************************************************************************)
MaxRows == 3
\* batch_size = 10: the ids one batch_delete call takes
DeleteBatchSize == 1

\* the kinds of rows of the model: Links that normalize to the same URL with
\* different and with equal times, a row without createdTime, one without Link
RowKinds ==
    {[createdTime |-> 1, fields |-> WithLink(LinkA1)],
     [createdTime |-> 2, fields |-> WithLink(LinkA1Q)],
     [createdTime |-> 2, fields |-> WithLink(LinkA1)],
     [createdTime |-> 1, fields |-> WithLink(LinkB2)],
     [createdTime |-> 0, fields |-> WithLink(LinkB2F)],
     [createdTime |-> 2, fields |-> WithoutLink]}
Row(i, k) == [id |-> i, createdTime |-> k.createdTime, fields |-> k.fields]
Tables == {[i \in DOMAIN ks |-> Row(i, ks[i])] : ks \in SeqsUpTo(RowKinds, MaxRows)}

\* lines 39-41: link = record.get("fields", {}).get("Link"); if link
GroupKey(r) == normalize_url(r.fields.Link)
\* the dict url_groups: its keys in the order of their first row
RECURSIVE GroupKeys(_)
GroupKeys(recs) ==
    IF recs = <<>> THEN <<>>
    ELSE LET before == GroupKeys(SubSeq(recs, 1, Len(recs) - 1))
             r == recs[Len(recs)]
         IN IF HasLink(r.fields) /\ \A j \in DOMAIN before : before[j] # GroupKey(r)
            THEN Append(before, GroupKey(r))
            ELSE before
\* url_groups[url]: the rows of a key, in the order of the table
RECURSIVE Group(_, _)
Group(recs, url) ==
    IF recs = <<>> THEN <<>>
    ELSE (IF HasLink(Head(recs).fields) /\ GroupKey(Head(recs)) = url
          THEN <<Head(recs)>> ELSE <<>>) \o Group(Tail(recs), url)
\* line 45: the keys with more than one row
RECURSIVE DuplicateKeys(_, _)
DuplicateKeys(keys, recs) ==
    IF keys = <<>> THEN <<>>
    ELSE (IF Len(Group(recs, Head(keys))) > 1 THEN <<Head(keys)>> ELSE <<>>)
             \o DuplicateKeys(Tail(keys), recs)
\* find_duplicates, lines 30-47
find_duplicates(recs) == DuplicateKeys(GroupKeys(recs), recs)

\* sorted(records, key=createdTime) without reverse=True: oldest first
RECURSIVE InsertOldestFirst(_, _)
InsertOldestFirst(sorted, r) ==
    IF sorted = <<>> THEN <<r>>
    ELSE IF Head(sorted).createdTime <= r.createdTime
         THEN <<Head(sorted)>> \o InsertOldestFirst(Tail(sorted), r)
         ELSE <<r>> \o sorted
\* sorted(records, key=createdTime, reverse=True): the sort is stable, rows
\* with equal times keep the order they had
RECURSIVE InsertNewestFirst(_, _)
InsertNewestFirst(sorted, r) ==
    IF sorted = <<>> THEN <<r>>
    ELSE IF Head(sorted).createdTime >= r.createdTime
         THEN <<Head(sorted)>> \o InsertNewestFirst(Tail(sorted), r)
         ELSE <<r>> \o sorted
RECURSIVE SortedWith(_, _)
SortedWith(recs, oldestFirst) ==
    IF recs = <<>> THEN <<>>
    ELSE IF oldestFirst
         THEN InsertOldestFirst(SortedWith(SubSeq(recs, 1, Len(recs) - 1), oldestFirst),
                                recs[Len(recs)])
         ELSE InsertNewestFirst(SortedWith(SubSeq(recs, 1, Len(recs) - 1), oldestFirst),
                                recs[Len(recs)])
SortedOldestFirst(recs) == SortedWith(recs, TRUE)
\* lines 62-66
SortedNewestFirst(recs) == SortedWith(recs, FALSE)

Ids(recs) == [i \in DOMAIN recs |-> recs[i].id]

\* select_records_to_delete, lines 50-72, on the groups of the keys
RECURSIVE select_records_to_delete(_, _)
select_records_to_delete(keys, recs) ==
    IF keys = <<>> THEN <<>>
    ELSE Ids(Tail(SortedNewestFirst(Group(recs, Head(keys)))))
             \o select_records_to_delete(Tail(keys), recs)

\* what the user types at the prompt; " " is white space
Responses ==
    {<<>>, <<"DELETE">>, <<" ", "DELETE">>, <<"DELETE", " ">>, <<"delete">>,
     <<"DELETE", "x">>, <<"x">>}
NoResponse == <<"none">>

\* any answer taken as the confirmation
ConfirmedAlways(resp) == TRUE
\* line 183: response.strip() != "DELETE"
Confirmed(resp) == Strip(resp) = <<"DELETE">>

CleanInitWith(e, t) ==
    /\ cenv = e
    /\ ctable = t
    /\ cpc = "start"
    /\ fetched = <<>>
    /\ to_delete = <<>>
    /\ response = NoResponse
    /\ deleted = <<>>
    /\ deleteCalls = 0

CleanInit ==
    \E e \in [dry_run : BOOLEAN, is_configured : BOOLEAN], t \in Tables :
        CleanInitWith(e, t)

\* lines 126-133: if not config.is_configured(): ... return
CleanNotConfigured ==
    /\ cpc = "start"
    /\ ~cenv.is_configured
    /\ cpc' = "returned"
    /\ UNCHANGED <<cenv, ctable, fetched, to_delete, response, deleted, deleteCalls>>

\* lines 135-140
CleanFetch ==
    /\ cpc = "start"
    /\ cenv.is_configured
    /\ fetched' = ctable
    /\ cpc' = "fetched"
    /\ UNCHANGED <<cenv, ctable, to_delete, response, deleted, deleteCalls>>

\* line 139: get_all_records raises
CleanFetchFails ==
    /\ cpc = "start"
    /\ cenv.is_configured
    /\ cpc' = "raised"
    /\ UNCHANGED <<cenv, ctable, fetched, to_delete, response, deleted, deleteCalls>>

\* lines 144-177: no duplicates: return; else the list to delete, and in a
\* dry run the return of line 177
Analyse ==
    /\ cpc = "fetched"
    /\ LET duplicate_groups == find_duplicates(fetched) IN
       IF duplicate_groups = <<>>
       THEN cpc' = "returned" /\ UNCHANGED to_delete
       ELSE /\ to_delete' = select_records_to_delete(duplicate_groups, fetched)
            /\ cpc' = IF cenv.dry_run THEN "returned" ELSE "confirm"
    /\ UNCHANGED <<cenv, ctable, fetched, response, deleted, deleteCalls>>

\* lines 180-185: the prompt
Confirm ==
    /\ cpc = "confirm"
    /\ \E resp \in Responses :
          /\ response' = resp
          /\ cpc' = IF Confirmed(resp) THEN "deleting" ELSE "returned"
    /\ UNCHANGED <<cenv, ctable, fetched, to_delete, deleted, deleteCalls>>

\* batch = to_delete[i:i + batch_size]
DeleteBatchOf(done) ==
    SubSeq(to_delete, done + 1, Min(done + DeleteBatchSize, Len(to_delete)))
InBatch(id, batch) == \E j \in DOMAIN batch : batch[j] = id
\* the table without the rows of a batch
RECURSIVE Without(_, _)
Without(rows, batch) ==
    IF rows = <<>> THEN <<>>
    ELSE (IF InBatch(Head(rows).id, batch) THEN <<>> ELSE <<Head(rows)>>)
             \o Without(Tail(rows), batch)

\* lines 195-205: one batch_delete call; after the last one main returns
DeleteBatch ==
    /\ cpc = "deleting"
    /\ ctable' = Without(ctable, DeleteBatchOf(Len(deleted)))
    /\ deleted' = deleted \o DeleteBatchOf(Len(deleted))
    /\ deleteCalls' = deleteCalls + 1
    /\ cpc' = IF Len(deleted') = Len(to_delete) THEN "returned" ELSE "deleting"
    /\ UNCHANGED <<cenv, fetched, to_delete, response>>

\* line 197: the call raises; the exception leaves main
DeleteBatchFails ==
    /\ cpc = "deleting"
    /\ deleteCalls' = deleteCalls + 1
    /\ cpc' = "raised"
    /\ UNCHANGED <<cenv, ctable, fetched, to_delete, response, deleted>>

(***************************************************************************)
(* Specifications                                                          *)
(***************************************************************************)
SyncIdle == SyncInitWith(<<>>, <<>>)
ScrapeIdle == ScrapeInitWith([i \in Sources |-> FALSE])
LiveIdle == LiveInit
ParseIdle == ParseInitWith("main", NoneText)
UrlIdle == UrlInitWith(<<>>)
MainIdle == MainInitWith(FullEnvironment)
SeqIdle == SeqInit
CleanIdle == CleanInitWith([dry_run |-> TRUE, is_configured |-> TRUE], <<>>)
SharedIdle == SharedInit
CycleIdle == CycleInit
IoIdle == IoInit
UpdIdle == UpdInitWith(<<>>)
LlmIdle == LlmInitWith(DefaultAttempts)
ScoreIdle == ScoreInitWith(<<>>, DefaultPreferences, ScoringReady)
BoardIdle == BoardInitWith(<<>>)
LoadIdle == LoadInitWith(AgentRun(FALSE, TRUE, <<>>))
NormIdle == NormInitWith(PlainFields)

\* the limiter under NumCallers callers that call acquire() again and again
InitLimiter == LimInit /\ RetryInit /\ ScrapeIdle /\ SyncIdle /\ LiveIdle /\ ParseIdle /\ UrlIdle /\ MainIdle /\ SeqIdle
    /\ CleanIdle /\ SharedIdle /\ CycleIdle /\ IoIdle /\ UpdIdle /\ LlmIdle /\ ScoreIdle /\ BoardIdle /\ LoadIdle /\ NormIdle
NextLimiter ==
    \/ \E p \in Callers : Enter(p) /\ UNCHANGED outsideLimiter
    \/ \E p \in Callers : LockAcquire(p) /\ UNCHANGED outsideLimiter
    \/ \E p \in Callers : Check(p) /\ UNCHANGED outsideLimiter
    \/ \E p \in Callers : Wake(p) /\ UNCHANGED outsideLimiter
    \/ LimTick /\ UNCHANGED outsideLimiter
SpecLimiter == InitLimiter /\ [][NextLimiter]_vars

\* the limiter under callers that make a bounded number of calls; the event
\* loop runs every coroutine that is ready (a free lock, a sleep that is
\* over) and its clock keeps advancing
InitAcquire == LimInit /\ RetryInit /\ ScrapeIdle /\ SyncIdle /\ LiveInit /\ ParseIdle /\ UrlIdle /\ MainIdle /\ SeqIdle
    /\ CleanIdle /\ SharedIdle /\ CycleIdle /\ IoIdle /\ UpdIdle /\ LlmIdle /\ ScoreIdle /\ BoardIdle /\ LoadIdle /\ NormIdle
NextAcquire ==
    \/ \E p \in Callers : Call(p) /\ UNCHANGED outsideAcquire
    \/ \E p \in Callers : CallLock(p) /\ UNCHANGED outsideAcquire
    \/ \E p \in Callers : CallCheck(p) /\ UNCHANGED outsideAcquire
    \/ \E p \in Callers : CallWake(p) /\ UNCHANGED outsideAcquire
    \/ Tick /\ UNCHANGED outsideAcquire
FairAcquire ==
    /\ \A p \in Callers : WF_vars(CallLock(p) /\ UNCHANGED outsideAcquire)
    /\ \A p \in Callers : WF_vars(CallCheck(p) /\ UNCHANGED outsideAcquire)
    /\ \A p \in Callers : WF_vars(CallWake(p) /\ UNCHANGED outsideAcquire)
    /\ WF_vars(Tick /\ UNCHANGED outsideAcquire)
SpecAcquire == InitAcquire /\ [][NextAcquire]_vars /\ FairAcquire

\* sequential calls of acquire() by one caller on a fresh limiter
InitSequential == LimInit /\ RetryInit /\ ScrapeIdle /\ SyncIdle /\ LiveIdle /\ ParseIdle /\ UrlIdle /\ MainIdle /\ SeqInit
    /\ CleanIdle /\ SharedIdle /\ CycleIdle /\ IoIdle /\ UpdIdle /\ LlmIdle /\ ScoreIdle /\ BoardIdle /\ LoadIdle /\ NormIdle
NextSequential ==
    \/ SeqCall /\ UNCHANGED outsideSequential
    \/ SeqLock /\ UNCHANGED outsideSequential
    \/ SeqCheck /\ UNCHANGED outsideSequential
    \/ SeqWake /\ UNCHANGED outsideSequential
    \/ SeqTick /\ UNCHANGED outsideSequential
SpecSequential == InitSequential /\ [][NextSequential]_vars

\* the source tasks of one scrape_sources call
InitShared == LimInit /\ RetryInit /\ ScrapeIdle /\ SyncIdle /\ LiveIdle /\ ParseIdle /\ UrlIdle /\ MainIdle /\ SeqIdle
    /\ CleanIdle /\ SharedInit /\ CycleIdle /\ IoIdle /\ UpdIdle /\ LlmIdle /\ ScoreIdle /\ BoardIdle /\ LoadIdle /\ NormIdle
NextShared ==
    \/ \E p \in Callers : TaskAcquire(p) /\ UNCHANGED outsideShared
    \/ \E p \in Callers : TaskWake(p) /\ UNCHANGED outsideShared
    \/ \E p \in Callers : ExtractionEnds(p) /\ UNCHANGED outsideShared
    \/ SharedTick /\ UNCHANGED outsideShared
SpecShared == InitShared /\ [][NextShared]_vars

\* one source task, from its first cycle to its end
InitCycle == LimInit /\ RetryInit /\ ScrapeIdle /\ SyncIdle /\ LiveIdle /\ ParseIdle /\ UrlIdle /\ MainIdle /\ SeqIdle
    /\ CleanIdle /\ SharedIdle /\ CycleInit /\ IoIdle /\ UpdIdle /\ LlmIdle /\ ScoreIdle /\ BoardIdle /\ LoadIdle /\ NormIdle
NextCycleSteps ==
    \/ CycAcquire /\ UNCHANGED outsideCycle
    \/ CycOpStart /\ UNCHANGED outsideCycle
    \/ CycOpReturns /\ UNCHANGED outsideCycle
    \/ CycOpRaisesRateLimit /\ UNCHANGED outsideCycle
    \/ CycOpRaisesOther /\ UNCHANGED outsideCycle
    \/ CycBackoffDone /\ UNCHANGED outsideCycle
    \/ CycLock /\ UNCHANGED outsideCycle
    \/ CycCheck /\ UNCHANGED outsideCycle
    \/ CycWake /\ UNCHANGED outsideCycle
    \/ CycTick /\ UNCHANGED outsideCycle
    \/ SourceRecords /\ UNCHANGED outsideCycle
    \/ SourceEmpty /\ UNCHANGED outsideCycle
    \/ SourceCaught /\ UNCHANGED outsideCycle
    \/ SourceRaises /\ UNCHANGED outsideCycle
SpecCycle == InitCycle /\ [][NextCycleSteps]_vars

\* one call of run_agent_with_retry, next to other callers of the limiter
InitRetry == LimInit /\ RetryInit /\ ScrapeIdle /\ SyncIdle /\ LiveIdle /\ ParseIdle /\ UrlIdle /\ MainIdle /\ SeqIdle
    /\ CleanIdle /\ SharedIdle /\ CycleIdle /\ IoIdle /\ UpdIdle /\ LlmIdle /\ ScoreIdle /\ BoardIdle /\ LoadIdle /\ NormIdle
NextRetry ==
    \/ RetryAcquire /\ UNCHANGED outsideRetry
    \/ OpStart /\ UNCHANGED outsideRetry
    \/ OpReturns /\ UNCHANGED outsideRetry
    \/ OpRaisesRateLimit /\ UNCHANGED outsideRetry
    \/ OpRaisesOther /\ UNCHANGED outsideRetry
    \/ BackoffDone /\ UNCHANGED outsideRetry
    \/ \E p \in Callers \ {Runner} :
           Enter(p) /\ UNCHANGED outsideLimiter
    \/ \E p \in Callers : LockAcquire(p) /\ UNCHANGED outsideLimiter
    \/ \E p \in Callers : Check(p) /\ UNCHANGED outsideLimiter
    \/ \E p \in Callers : Wake(p) /\ UNCHANGED outsideLimiter
    \/ LimTick /\ UNCHANGED outsideLimiter
SpecRetry == InitRetry /\ [][NextRetry]_vars

\* one call of scrape_sources
InitScrape == LimInit /\ RetryInit /\ ScrapeInit /\ SyncIdle /\ LiveIdle /\ ParseIdle /\ UrlIdle /\ MainIdle /\ SeqIdle
    /\ CleanIdle /\ SharedIdle /\ CycleIdle /\ IoIdle /\ UpdIdle /\ LlmIdle /\ ScoreIdle /\ BoardIdle /\ LoadIdle /\ NormIdle
NextScrape ==
    \/ ScrapeStart /\ UNCHANGED outsideScrape
    \/ \E i \in Sources : TaskStart(i) /\ UNCHANGED outsideScrape
    \/ \E i \in Sources : CycleRecords(i) /\ UNCHANGED outsideScrape
    \/ \E i \in Sources : CycleEmpty(i) /\ UNCHANGED outsideScrape
    \/ \E i \in Sources, k \in {"Transport", "RuntimeError"} :
           CycleCaught(i, k) /\ UNCHANGED outsideScrape
    \/ \E i \in Sources :
           CycleRaises(i, "Exception") /\ UNCHANGED outsideScrape
    \/ Collect /\ UNCHANGED outsideScrape
SpecScrape == InitScrape /\ [][NextScrape]_vars

\* one call of create_records
InitSync == LimInit /\ RetryInit /\ ScrapeIdle /\ SyncInit /\ LiveIdle /\ ParseIdle /\ UrlIdle /\ MainIdle /\ SeqIdle
    /\ CleanIdle /\ SharedIdle /\ CycleIdle /\ IoIdle /\ UpdIdle /\ LlmIdle /\ ScoreIdle /\ BoardIdle /\ LoadIdle /\ NormIdle
NextSync ==
    \/ SyncNothing /\ UNCHANGED outsideSync
    \/ FetchAndFilter /\ UNCHANGED outsideSync
    \/ FetchFails /\ UNCHANGED outsideSync
    \/ WriteChunk /\ UNCHANGED outsideSync
    \/ WriteChunkFails /\ UNCHANGED outsideSync
SpecSync == InitSync /\ [][NextSync]_vars

\* one call of _parse_records
InitParse == LimInit /\ RetryInit /\ ScrapeIdle /\ SyncIdle /\ LiveIdle /\ ParseInit /\ UrlIdle /\ MainIdle /\ SeqIdle
    /\ CleanIdle /\ SharedIdle /\ CycleIdle /\ IoIdle /\ UpdIdle /\ LlmIdle /\ ScoreIdle /\ BoardIdle /\ LoadIdle /\ NormIdle
NextParse ==
    \/ Parse /\ UNCHANGED outsideParse
SpecParse == InitParse /\ [][NextParse]_vars

\* normalize_url on one URL, twice
InitUrl == LimInit /\ RetryInit /\ ScrapeIdle /\ SyncIdle /\ LiveIdle /\ ParseIdle /\ UrlInit /\ MainIdle /\ SeqIdle
    /\ CleanIdle /\ SharedIdle /\ CycleIdle /\ IoIdle /\ UpdIdle /\ LlmIdle /\ ScoreIdle /\ BoardIdle /\ LoadIdle /\ NormIdle
NextUrl ==
    \/ Normalize /\ UNCHANGED outsideUrl
    \/ NormalizeAgain /\ UNCHANGED outsideUrl
SpecUrl == InitUrl /\ [][NextUrl]_vars

\* one run of cleanup_duplicates.py
InitClean == LimInit /\ RetryInit /\ ScrapeIdle /\ SyncIdle /\ LiveIdle /\ ParseIdle /\ UrlIdle /\ MainIdle /\ SeqIdle
    /\ CleanInit /\ SharedIdle /\ CycleIdle /\ IoIdle /\ UpdIdle /\ LlmIdle /\ ScoreIdle /\ BoardIdle /\ LoadIdle /\ NormIdle
NextClean ==
    \/ CleanNotConfigured /\ UNCHANGED outsideClean
    \/ CleanFetch /\ UNCHANGED outsideClean
    \/ CleanFetchFails /\ UNCHANGED outsideClean
    \/ Analyse /\ UNCHANGED outsideClean
    \/ Confirm /\ UNCHANGED outsideClean
    \/ DeleteBatch /\ UNCHANGED outsideClean
    \/ DeleteBatchFails /\ UNCHANGED outsideClean
SpecClean == InitClean /\ [][NextClean]_vars

\* the sync block of main(), and create_records called by another caller
InitBlock == LimInit /\ RetryInit /\ ScrapeIdle /\ LiveIdle /\ ParseIdle /\ UrlIdle /\ SeqIdle
    /\ CleanIdle /\ SharedIdle /\ CycleIdle /\ BlockInit /\ UpdIdle /\ LlmIdle /\ ScoreIdle /\ BoardIdle /\ LoadIdle /\ NormIdle
NextBlock ==
    \/ SyncCall /\ UNCHANGED outsideMain
    \/ SyncReturns /\ UNCHANGED outsideMain
    \/ SyncRaises /\ UNCHANGED outsideMain
    \/ BlockNothing /\ UNCHANGED outsideBlock
    \/ BlockFetch /\ UNCHANGED outsideBlock
    \/ BlockFetchFails /\ UNCHANGED outsideBlock
    \/ BlockWrite /\ UNCHANGED outsideBlock
    \/ BlockWriteFails /\ UNCHANGED outsideBlock
SpecBlock == InitBlock /\ [][NextBlock]_vars

\* one call of batch_update_records
InitUpdate == LimInit /\ RetryInit /\ ScrapeIdle /\ SyncIdle /\ LiveIdle /\ ParseIdle /\ UrlIdle /\ MainIdle /\ SeqIdle
    /\ CleanIdle /\ SharedIdle /\ CycleIdle /\ IoIdle /\ UpdInit /\ LlmIdle /\ ScoreIdle /\ BoardIdle /\ LoadIdle /\ NormIdle
NextUpdate ==
    \/ UpdateNothing /\ UNCHANGED outsideUpdate
    \/ UpdateConnect /\ UNCHANGED outsideUpdate
    \/ ChunkUpdated /\ UNCHANGED outsideUpdate
    \/ ChunkRaises /\ UNCHANGED outsideUpdate
SpecUpdate == InitUpdate /\ [][NextUpdate]_vars

\* one call of _call_llm; the event loop runs the call on: the request ends
\* and the sleep ends
InitLlm == LimInit /\ RetryInit /\ ScrapeIdle /\ SyncIdle /\ LiveIdle /\ ParseIdle /\ UrlIdle /\ MainIdle /\ SeqIdle
    /\ CleanIdle /\ SharedIdle /\ CycleIdle /\ IoIdle /\ UpdIdle /\ LlmInit /\ ScoreIdle /\ BoardIdle /\ LoadIdle /\ NormIdle
NextLlm ==
    \/ LlmCall /\ UNCHANGED outsideLlm
    \/ LlmAnswers /\ UNCHANGED outsideLlm
    \/ LlmFails /\ UNCHANGED outsideLlm
    \/ LlmSleepDone /\ UNCHANGED outsideLlm
    \/ LlmExhausted /\ UNCHANGED outsideLlm
SpecLlm == InitLlm /\ [][NextLlm]_vars /\ WF_vars(NextLlm)

\* one call of score_records
InitScore == LimInit /\ RetryInit /\ ScrapeIdle /\ SyncIdle /\ LiveIdle /\ ParseIdle /\ UrlIdle /\ MainIdle /\ SeqIdle
    /\ CleanIdle /\ SharedIdle /\ CycleIdle /\ IoIdle /\ UpdIdle /\ LlmIdle /\ ScoreInit /\ BoardIdle /\ LoadIdle /\ NormIdle
NextScore ==
    \/ ScoreSkipped /\ UNCHANGED outsideScore
    \/ ScoreBegin /\ UNCHANGED outsideScore
    \/ SkipUnreadable /\ UNCHANGED outsideScore
    \/ HardRuleUpdate /\ UNCHANGED outsideScore
    \/ CallModel /\ UNCHANGED outsideScore
    \/ \E o \in LlmOutcomes : ModelAnswers(o) /\ UNCHANGED outsideScore
    \/ ScoreFlush /\ UNCHANGED outsideScore
SpecScore == InitScore /\ [][NextScore]_vars

\* one call of run_jobboards; each awaited call ends
InitBoards == LimInit /\ RetryInit /\ ScrapeIdle /\ SyncIdle /\ LiveIdle /\ ParseIdle /\ UrlIdle /\ MainIdle /\ SeqIdle
    /\ CleanIdle /\ SharedIdle /\ CycleIdle /\ IoIdle /\ UpdIdle /\ LlmIdle /\ ScoreIdle /\ BoardInit /\ LoadIdle /\ NormIdle
NextBoards ==
    \/ \E i \in Boards : BlankBoard(i) /\ UNCHANGED outsideBoards
    \/ \E i \in Boards : BoardEnters(i) /\ UNCHANGED outsideBoards
    \/ \E i \in Boards : AgentFails(i) /\ UNCHANGED outsideBoards
    \/ \E i \in Boards, o \in AgentOutcomes : AgentAnswers(i, o) /\ UNCHANGED outsideBoards
    \/ GatherReturns /\ UNCHANGED outsideBoards
    \/ GatherRaises /\ UNCHANGED outsideBoards
SpecBoards == InitBoards /\ [][NextBoards]_vars /\ WF_vars(NextBoards)

\* one call of load_sources_with_fallback
InitLoad == LimInit /\ RetryInit /\ ScrapeIdle /\ SyncIdle /\ LiveIdle /\ ParseIdle /\ UrlIdle /\ MainIdle /\ SeqIdle
    /\ CleanIdle /\ SharedIdle /\ CycleIdle /\ IoIdle /\ UpdIdle /\ LlmIdle /\ ScoreIdle /\ BoardIdle /\ LoadInit /\ NormIdle
NextLoad ==
    \/ LoaderRaises /\ UNCHANGED outsideLoad
    \/ LoaderReturns /\ UNCHANGED outsideLoad
    \/ LoadedReturned /\ UNCHANGED outsideLoad
    \/ FallbackReturned /\ UNCHANGED outsideLoad
SpecLoad == InitLoad /\ [][NextLoad]_vars

\* one call of _normalize_record
InitNormalize == LimInit /\ RetryInit /\ ScrapeIdle /\ SyncIdle /\ LiveIdle /\ ParseIdle /\ UrlIdle /\ MainIdle /\ SeqIdle
    /\ CleanIdle /\ SharedIdle /\ CycleIdle /\ IoIdle /\ UpdIdle /\ LlmIdle /\ ScoreIdle /\ BoardIdle /\ LoadIdle /\ NormInit
NextNormalize ==
    \/ NormalizeReturns /\ UNCHANGED outsideNormalize
    \/ NormalizeRaises /\ UNCHANGED outsideNormalize
SpecNormalize == InitNormalize /\ [][NextNormalize]_vars

\* one run of main(), with SIGINT arriving at most once
InitMain == LimInit /\ RetryInit /\ ScrapeIdle /\ SyncIdle /\ LiveIdle /\ ParseIdle /\ UrlIdle /\ MainInit /\ SeqIdle
    /\ CleanIdle /\ SharedIdle /\ CycleIdle /\ IoIdle /\ UpdIdle /\ LlmIdle /\ ScoreIdle /\ BoardIdle /\ LoadIdle /\ NormIdle
Scraping == npc \in Awaiting
Syncing == npc = "syncing"
NextMain ==
    \/ Validate /\ UNCHANGED outsideMain
    \/ UseHardcoded /\ UNCHANGED outsideMain
    \/ NotConfigured /\ UNCHANGED outsideMain
    \/ NoSourcesTable /\ UNCHANGED outsideMain
    \/ FetchSources /\ UNCHANGED outsideMain
    \/ FetchSourcesFails /\ UNCHANGED outsideMain
    \/ OpenServer /\ UNCHANGED outsideMain
    \/ PhaseOneDone /\ UNCHANGED outsideMain
    \/ PhaseTwoDone /\ UNCHANGED outsideMain
    \/ SyncCall /\ UNCHANGED outsideMain
    \/ SyncReturns /\ UNCHANGED outsideMain
    \/ SyncRaises /\ UNCHANGED outsideMain
    \/ InterruptAwaiting /\ UNCHANGED outsideMain
    \/ InterruptRunning /\ UNCHANGED outsideMain
    \/ DeliverCancel /\ UNCHANGED outsideMain
    \/ Scraping /\ ScrapeStart /\ UNCHANGED outsideScrape
    \/ \E i \in Sources : Scraping /\ TaskStart(i) /\ UNCHANGED outsideScrape
    \/ \E i \in Sources : Scraping /\ CycleRecords(i) /\ UNCHANGED outsideScrape
    \/ \E i \in Sources : Scraping /\ CycleEmpty(i) /\ UNCHANGED outsideScrape
    \/ \E i \in Sources, k \in {"Transport", "RuntimeError"} :
           Scraping /\ CycleCaught(i, k) /\ UNCHANGED outsideScrape
    \/ \E i \in Sources :
           Scraping /\ CycleRaises(i, "Exception") /\ UNCHANGED outsideScrape
    \/ Scraping /\ Collect /\ UNCHANGED outsideScrape
    \/ Syncing /\ FetchAndFilter /\ UNCHANGED outsideSync
    \/ Syncing /\ FetchFails /\ UNCHANGED outsideSync
    \/ Syncing /\ WriteChunk /\ UNCHANGED outsideSync
    \/ Syncing /\ WriteChunkFails /\ UNCHANGED outsideSync
SpecMain == InitMain /\ [][NextMain]_vars

(***************************************************************************)
(* Claims                                                                  *)
(***************************************************************************)
\* the URL without its query string and its fragment: the text before the
\* first "?" or "#"
Stripped(l) == Before(l, FirstIndex(l, {"?", "#"}))

\* the normalized Links of the rows of a table that have a Link
IndexOf(rows) == {Stripped(rows[j].Link) : j \in {k \in DOMAIN rows : HasLink(rows[k])}}

\* the records the tasks 1..n returned, in task order
RECURSIVE ConcatReturned(_)
ConcatReturned(n) ==
    IF n = 0 THEN <<>>
    ELSE ConcatReturned(n - 1)
             \o (IF result[n].kind = "returned" THEN result[n].value ELSE <<>>)

RaisedTasks == {i \in Tasks : result[i].kind = "raised"}

\* C1: in no sliding window (now - WindowSeconds, now] are more than
\* MaxRequests calls of acquire() admitted, whatever the interleaving of the
\* callers.
C1_RateLimitBound == Len(admitted) <= MaxRequests

C1_Witness ==
    /\ Len(admitted) = MaxRequests
    /\ \E p \in Callers : lpc[p] = "sleeping" /\ wake[p] > 0

\* C2: a task that raises never makes scrape_sources raise; scrape_sources
\* returns only when every task has reached its own end, its list is the
\* concatenation of the lists of the tasks that returned, and it reports
\* exactly the sources whose task raised.  With three sources of which the
\* second raises: the records of the first, then those of the third, and one
\* report.
C2_FailureIsolation ==
    /\ mpc # "raised"
    /\ mpc = "returned" =>
        /\ \A i \in Tasks : tpc[i] = "done"
        /\ all_records = ConcatReturned(Len(relevant_sources))
        /\ Len(reported) = Cardinality(RaisedTasks)
        /\ \A i \in Tasks : i \in RaisedTasks <=>
               \E k \in DOMAIN reported : reported[k] = relevant_sources[i]
    /\ (/\ mpc = "returned"
        /\ Len(relevant_sources) = 3
        /\ RaisedTasks = {2}) =>
            /\ all_records = result[1].value \o result[3].value
            /\ reported = <<relevant_sources[2]>>

C2_Witness ==
    /\ mpc = "returned"
    /\ Len(relevant_sources) = 3
    /\ RaisedTasks = {2}
    /\ result[1].value # <<>>
    /\ result[3].value # <<>>

\* C3 (as amended): every record of the write batch that has a Link has a
\* Link whose normalized form is absent from the index built at the start of
\* the same call, and that index holds the normalized Links of the table;
\* records without a Link are in the write batch too.
C3_DedupInvariant ==
    spc \in {"writing", "returned", "raised"} /\ new_records # <<>> =>
        /\ existing_links_normalized = IndexOf(store0)
        /\ \A k \in DOMAIN new_records :
               HasLink(new_records[k]) =>
                   Stripped(new_records[k].Link) \notin IndexOf(store0)

C3_Witness ==
    /\ spc = "returned"
    /\ skipped_count > 0
    /\ \E k \in DOMAIN created : ~HasLink(created[k])
    /\ \E k \in DOMAIN created : HasLink(created[k])

\* C3 as stated: every record of the write batch has a Link, and its
\* normalized form is absent from the index.
C3_Original ==
    spc \in {"writing", "returned", "raised"} =>
        \A k \in DOMAIN new_records :
            /\ HasLink(new_records[k])
            /\ Stripped(new_records[k].Link) \notin IndexOf(store0)

\* C4: a call whose operation raises RateLimitError every time invokes it
\* exactly MaxRetries + 1 times and then raises the RuntimeError whose cause
\* is the last RateLimitError; no call invokes the operation more often.
AllQuota == \A k \in DOMAIN opErrors : opErrors[k] = "RateLimitError"

C4_RetryTermination ==
    /\ opCalls <= MaxRetries + 1
    /\ AllQuota /\ Len(opErrors) = MaxRetries + 1 => rpc = "raised"
    /\ AllQuota /\ rpc \in {"returned", "raised"} =>
        /\ opCalls = MaxRetries + 1
        /\ Len(opErrors) = MaxRetries + 1
        /\ raised = [kind |-> "RuntimeError", id |-> 0, cause |-> Len(opErrors)]

C4_Witness ==
    /\ rpc = "raised"
    /\ AllQuota
    /\ opCalls = MaxRetries + 1
    /\ raised.kind = "RuntimeError"
    /\ Len(delays) = MaxRetries

\* the first cycle of task i is over
FirstCycleOver(i) == first[i] # "none"
\* task i has started a second cycle
SecondCycle(i) == tattempt[i] >= 1

\* C5 (as amended): a task runs at most two cycles; it runs the second
\* exactly when the first raised one of the errors scrape_source catches
\* (asyncio.TimeoutError, ConnectionError, or RuntimeError, which the
\* retries-exhausted error is) or yielded no records; a task that ran two
\* cycles ends with the records of the second, with an empty list, or with
\* the exception scrape_source does not catch.
C5_RetryBudget ==
    \A i \in Tasks :
        /\ tattempt[i] + 1 <= 2
        /\ FirstCycleOver(i) =>
               (SecondCycle(i) <=> first[i] \in {"Transport", "RuntimeError", "empty"})
        /\ ~FirstCycleOver(i) => ~SecondCycle(i)
        /\ (tpc[i] = "done" /\ SecondCycle(i)) =>
               result[i] \in {Returned(<<>>), Raised("Exception")}
                                 \cup {Returned(r) : r \in RecordLists(relevant_sources[i], 1)}

C5_Witness ==
    \E i \in Tasks :
        /\ first[i] = "RuntimeError"
        /\ tattempt[i] = 1
        /\ tpc[i] = "done"
        /\ result[i] = Returned(<<>>)

\* C5 as stated: the second cycle runs exactly when the first raised a
\* transport-class error or yielded no records.
C5_Original ==
    \A i \in Tasks :
        /\ tattempt[i] + 1 <= 2
        /\ FirstCycleOver(i) =>
               (SecondCycle(i) <=> first[i] \in {"Transport", "empty"})

\* C6: at every moment at most ConcurrencyBound tasks are in flight (started
\* and not yet at their end).
InFlight == {i \in Tasks : tpc[i] = "running"}

C6_BoundedConcurrency == Cardinality(InFlight) <= ConcurrencyBound

\* C7: whatever the order in which the tasks complete, the records of the
\* list scrape_sources returns are in source order, and the records of each
\* source are those its task returned, in the order it returned them.
C7_AggregateOrder ==
    mpc = "returned" =>
        /\ \A p, q \in DOMAIN all_records :
               p < q => all_records[p].Source <= all_records[q].Source
        /\ \A i \in Tasks :
               SelectSeq(all_records, LAMBDA r : r.Source = relevant_sources[i])
                   = IF result[i].kind = "returned" THEN result[i].value ELSE <<>>

C7_Witness ==
    /\ mpc = "returned"
    /\ Len(relevant_sources) >= 2
    /\ firstDone = Len(relevant_sources)
    /\ result[1].value # <<>>
    /\ Len(result[firstDone].value) >= 2

\* C8: no two records of the write batch have Links with the same
\* normalized form.
C8_WithinBatchDedup ==
    spc \in {"writing", "returned", "raised"} =>
        \A j, k \in DOMAIN new_records :
            (j < k /\ HasLink(new_records[j]) /\ HasLink(new_records[k]))
                => Stripped(new_records[j].Link) # Stripped(new_records[k].Link)

\* the incoming records whose normalized Link is in the index of the table
Duplicates ==
    {k \in DOMAIN records :
        /\ HasLink(NormalizeRecord(records[k]))
        /\ Stripped(NormalizeRecord(records[k]).Link) \in IndexOf(store0)}

\* C9: create_records reports as skipped the number of incoming records
\* whose normalized Link is in the index of the table, and as created the
\* number of rows written; with https://a.com/job/1 in the table and
\* [https://a.com/job/1?utm=x, https://b.com/job/2] incoming it reports
\* created 1, skipped 1 and writes https://b.com/job/2.
C9_DedupAccounting ==
    spc = "returned" =>
        /\ report.skipped = Cardinality(Duplicates)
        /\ report.created = Len(store) - Len(store0)
        /\ report.created + report.skipped = Len(records)
        /\ (store0 = <<WithLink(LinkA1)>>
            /\ records = <<WithLink(LinkA1Q), WithLink(LinkB2)>>) =>
               /\ report = [created |-> 1, skipped |-> 1]
               /\ store = <<WithLink(LinkA1), WithLink(LinkB2)>>

C9_Witness ==
    /\ spc = "returned"
    /\ store0 = <<WithLink(LinkA1)>>
    /\ records = <<WithLink(LinkA1Q), WithLink(LinkB2)>>
    /\ report = [created |-> 1, skipped |-> 1]

\* C10: the failure of the write of one chunk never makes create_records
\* raise: the remaining chunks are written and the report is returned.
C10_ChunkIsolation == chunkFailed => spc # "raised"

\* caller p is inside a call of acquire() that has not returned
Acquiring(p) == lpc[p] \in {"enter", "locked", "sleeping"}

\* C12: with MaxRequests >= 1, callers that make a bounded number of calls
\* and a clock that keeps advancing, every call of acquire() returns: a caller
\* that is inside acquire() is admitted at some later time, whatever the
\* interleaving with the other callers.
C12_AcquireReturns == \A p \in Callers : Acquiring(p) ~> lpc[p] = "admitted"

\* a call that found the window full and slept has been admitted
C12_Witness ==
    lpc[Runner] = "admitted" /\ waited /\ calls[Runner] = MaxCalls

\* C13: an error of the operation that is not a RateLimitError is raised by
\* run_agent_with_retry as it is and at once: the invocation that raised it
\* is the last one, acquire() is not called again, and the only sleeps of the
\* call are those that followed the earlier RateLimitErrors.
C13_OtherErrorsNotRetried ==
    \A k \in DOMAIN opErrors :
        opErrors[k] = "Exception" =>
            /\ k = Len(opErrors)
            /\ opCalls = k
            /\ acquires = k
            /\ rpc = "raised"
            /\ raised = [kind |-> "Exception", id |-> k, cause |-> 0]
            /\ Len(delays) = k - 1
            /\ wake[Runner] = 0

C13_Witness ==
    /\ rpc = "raised"
    /\ raised.kind = "Exception"
    /\ opErrors = <<"RateLimitError", "Exception">>
    /\ Len(delays) = 1

\* C14: every attempt of run_agent_with_retry calls acquire() once, and its
\* operation starts only when that call has returned: when the operation is
\* invoked the call is admitted and acquire() has been called once more
\* than the operation; acquire() is called only when every earlier call has
\* been followed by its invocation and the backoff sleep of the attempt
\* before is over.
C14_AdmissionPrecedesAttempt ==
    [][/\ opCalls' # opCalls =>
            /\ lpc[Runner] = "admitted"
            /\ acquires = opCalls + 1
            /\ opCalls' = acquires
       /\ acquires' # acquires =>
            /\ acquires' = acquires + 1
            /\ acquires = opCalls
            /\ acquires = attempt
            /\ Len(delays) = attempt
            /\ wake[Runner] = 0]_vars

C14_Witness ==
    /\ rpc = "running"
    /\ attempt = MaxRetries
    /\ acquires = MaxRetries + 1
    /\ opCalls = acquires
    /\ Len(delays) = MaxRetries

\* the positions of the characters of t that are not blanks, the positions
\* of its opening and of its closing brackets
NonBlank(t) == {i \in DOMAIN t : t[i] # " "}
Opening(t) == {i \in DOMAIN t : t[i] = "["}
Closing(t) == {i \in DOMAIN t : t[i] = "]"}
Least(S) == CHOOSE i \in S : \A j \in S : i <= j
Greatest(S) == CHOOSE i \in S : \A j \in S : i >= j

\* the text without the blanks at its two ends
Trimmed(t) ==
    IF NonBlank(t) = {} THEN <<>> ELSE SubSeq(t, Least(NonBlank(t)), Greatest(NonBlank(t)))

\* a text that holds no JSON array stands for "no candidate"
NoCandidate == <<"x">>
\* the JSON candidate of a trimmed text
CandidateOf(t) ==
    IF t # <<>> /\ t[1] = "[" /\ t[Len(t)] = "]" THEN t
    ELSE IF Opening(t) = {} \/ Closing(t) = {} THEN NoCandidate
    ELSE IF Greatest(Closing(t)) <= Least(Opening(t)) THEN NoCandidate
    ELSE SubSeq(t, Least(Opening(t)), Greatest(Closing(t)))

\* the candidate is valid JSON and an array
ValidArray(c) == JsonLoads(c).ok /\ JsonLoads(c).value.t = "arr"

\* the result the rule of selection gives
Selected(o) ==
    IF o.type # "str" THEN ParsedNone
    ELSE IF ValidArray(CandidateOf(Trimmed(o.text)))
         THEN ParsedList(JsonLoads(CandidateOf(Trimmed(o.text))).value)
         ELSE ParsedNone

NoJsonHere == StrText(<<"x", " ", "x">>)

C16_CandidateSelection ==
    /\ ppc # "start" => parsed = Selected(output_text)
    /\ parse_records(output_text) = parse_records_career(output_text)
    /\ parse_records(output_text) = parse_records_sandbox(output_text)

\* narration around an array, parsed by the copy of sandbox_runner.py
C16_Witness ==
    /\ ppc = "returned"
    /\ copy = "sandbox_runner"
    /\ output_text = StrText(<<"x", "[", "[", "]", "]">>)
    /\ parsed = ParsedList(JArr(<<JArr(<<>>)>>))

\* C17 as stated: normalize_url is idempotent, and its result is the URL
\* with scheme, host and path as they are in it, without the query string
\* and the fragment.
C17_Original ==
    /\ upc = 2 => renormalized = normalized
    /\ upc >= 1 => normalized = Stripped(link)

\* the terminal states of a task: SUCCESS with records, EMPTY with none,
\* FAILED with the exception that left scrape_source
Terminal(i) ==
    IF result[i].kind = "raised" THEN "FAILED"
    ELSE IF result[i].kind = "returned" /\ result[i].value # <<>> THEN "SUCCESS"
    ELSE IF result[i].kind = "returned" THEN "EMPTY"
    ELSE "none"

\* the first cycle of task i ends in this step, with outcome o
FirstCycleEnds(i, o) == first[i] = "none" /\ first'[i] = o

\* the steps of a task that are the same in C19 as stated and as amended:
\* PENDING to RUNNING, RUNNING to a terminal state that is kept, at most
\* one more cycle, and a first cycle with records is terminal
TaskSteps(i) ==
    /\ tpc[i] = "pending" =>
           tpc'[i] \in {"pending", "running"} /\ tattempt'[i] = 0 /\ first'[i] = "none"
    /\ tpc[i] = "running" => tpc'[i] \in {"running", "done"}
    /\ tpc[i] = "done" =>
           tpc'[i] = "done" /\ result'[i] = result[i] /\ tattempt'[i] = tattempt[i]
    /\ tpc'[i] = "done" <=> Terminal(i)' \in {"SUCCESS", "EMPTY", "FAILED"}
    /\ tattempt'[i] # tattempt[i] =>
           /\ tpc[i] = "running" /\ tpc'[i] = "running"
           /\ tattempt[i] = 0 /\ tattempt'[i] = 1
           /\ first'[i] \notin {"none", "records"}
    /\ FirstCycleEnds(i, "records") =>
           tpc'[i] = "done" /\ Terminal(i)' = "SUCCESS" /\ tattempt'[i] = 0

\* C19 (as amended): a task goes from PENDING to RUNNING and from RUNNING to
\* one of SUCCESS, EMPTY, FAILED, where it stays; when its first cycle ends
\* with no records or with an error scrape_source catches (timeout,
\* connection error, RuntimeError) it runs one more cycle before its
\* terminal state; when its first cycle raises any other error the task is
\* FAILED at once, without another cycle; a first cycle with records is
\* terminal.
C19_TaskStateMachine ==
    [][\A i \in Tasks :
        /\ TaskSteps(i)
        /\ (\E o \in {"empty", "Transport", "RuntimeError"} : FirstCycleEnds(i, o)) =>
               tpc'[i] = "running" /\ tattempt'[i] = 1
        /\ FirstCycleEnds(i, "Exception") =>
               tpc'[i] = "done" /\ Terminal(i)' = "FAILED" /\ tattempt'[i] = 0]_vars

C19_Witness ==
    \E i, j \in Tasks :
        /\ first[i] = "Exception" /\ tpc[i] = "done" /\ tattempt[i] = 0
        /\ Terminal(i) = "FAILED"
        /\ first[j] = "empty" /\ tpc[j] = "done" /\ tattempt[j] = 1
        /\ Terminal(j) = "SUCCESS"

\* C19 as stated: whenever the first cycle ends in EMPTY or in FAILED the
\* task runs one more cycle.
C19_Original ==
    [][\A i \in Tasks :
        /\ TaskSteps(i)
        /\ (\E o \in {"empty", "Transport", "RuntimeError", "Exception"} :
                FirstCycleEnds(i, o)) =>
               tpc'[i] = "running" /\ tattempt'[i] = 1]_vars

\* the positions of main() before create_records is called
BeforeMerger == {"start", "validated", "ready", "phase1", "phase2", "scraped"}

\* no task of the current scrape_sources call is still running
NoTaskInFlight == \A i \in Tasks : tpc[i] # "running"

\* a step of a run that was interrupted before create_records was reached
\* writes nothing, and leaves no task in flight when it ends the run
AfterInterruptStep ==
    interruptedAt \in BeforeMerger =>
        /\ store' = store
        /\ (npc' = "ended") => NoTaskInFlight'

\* C11: when the run is interrupted at any point before create_records is
\* reached, no storage write is performed at any later point of the run, and
\* once the run has ended no task is left in flight.
C11_NoWriteAfterCancel == [][AfterInterruptStep]_vars

\* a run interrupted while it awaits scrape_sources: its tasks are cancelled
\* and nothing is written
InterruptedWhileAwaiting ==
    interruptedAt \in Awaiting =>
        /\ npc = "ended" /\ ended = Cancelled
        /\ NoTaskInFlight
        /\ store = store0 /\ spc = "start"

\* the settings C20 names, each one required in the mode that reads it: the
\* storage settings are read only when USE_HARDCODED_SOURCE is off
RequiredMissing(e) ==
    \/ ~e.OPENAI_API_KEY
    \/ ~e.USE_HARDCODED_SOURCE /\ (~e.is_configured \/ ~e.sources_table_id)
\* the settings C20 names, whatever the mode
NamedMissing(e) == ~e.OPENAI_API_KEY \/ ~e.is_configured \/ ~e.sources_table_id

\* no scrape_sources call has begun: no task created, no cycle run
NoTaskCreated ==
    /\ npc \in {"start", "validated", "ended"}
    /\ mpc = "start"
    /\ \A i \in Sources : tpc[i] = "pending" /\ first[i] = "none" /\ result[i] = NoResult
\* create_records has not been called and the table is as it was
NoStorageWrite == spc = "start" /\ store = store0 /\ records = <<>>

\* C20 (as amended): when the extraction API key is missing, or when
\* USE_HARDCODED_SOURCE is off and a storage setting (key, base, offers
\* table, sources table id) is missing, the run ends before any task is
\* created, before any cycle (admission, extraction call) and before any
\* storage write; with USE_HARDCODED_SOURCE on the storage settings are not
\* read, the tasks run and nothing is written to the storage.
C20_ConfigErrorsAbortEarly ==
    /\ RequiredMissing(env) => NoTaskCreated /\ NoStorageWrite
    /\ env.USE_HARDCODED_SOURCE => NoStorageWrite

C20_Witness ==
    /\ env.OPENAI_API_KEY /\ env.is_configured /\ ~env.sources_table_id
    /\ ~env.USE_HARDCODED_SOURCE
    /\ npc = "ended" /\ ended = Returns /\ client

\* C20 as stated: a missing setting of the list ends the run before any task
\* is created, whatever the mode.
C20_Original == NamedMissing(env) => NoTaskCreated /\ NoStorageWrite

\* a configuration error: the RuntimeError of the validation
ConfigurationError == ended = Raises("RuntimeError") /\ ~ValidationPasses(env)

\* what C18 says of the scrape phases: whatever the tasks end in,
\* scrape_sources returns and main() goes on to the sync
PerSourceErrorsContained ==
    /\ mpc \notin {"raised"}
    /\ (ended.how = "raised" /\ interruptedAt = "none") =>
           \/ ConfigurationError
           \/ ended.error = "StorageError"

\* C18: no outcome of the tasks makes scrape_sources raise, and only a
\* configuration error or an interrupt ends the run with an error.
C18_OnlyConfigOrCancelRaise ==
    /\ mpc # "raised"
    /\ ended.how = "raised" => ConfigurationError \/ interruptedAt # "none"

\* the timestamps of the queue that are newer than now - WindowSeconds
Fresh == {i \in DOMAIN timestamps : timestamps[i] < WindowSeconds}

\* C23: in every reachable state of the limiter the queue holds at most
\* MaxRequests timestamps that are newer than now - WindowSeconds.
C23_WindowInvariant == Cardinality(Fresh) <= MaxRequests

C23_Witness ==
    /\ Cardinality(Fresh) = MaxRequests
    /\ \E p \in Callers : lpc[p] = "sleeping" /\ wake[p] > 0

\* the queue is read or changed by a step of a caller (the passing of time
\* only ages its entries and leaves every caller where it is)
QueueStep(p) ==
    /\ lpc[p] # lpc'[p]
    /\ \/ lpc[p] = "locked"
       \/ Len(timestamps') # Len(timestamps)
       \/ admitted' # admitted

\* a step keeps the lock discipline: the queue is read and changed only by
\* the caller that holds the lock, and whoever leaves the with block gives
\* the lock back
LockStep ==
    \A p \in Callers :
        QueueStep(p) => lock = p /\ lpc[p] = "locked" /\ lock' = 0

\* the lock is held by a caller inside the with block only
LockHeldInside ==
    /\ lock \in Callers \cup {0}
    /\ \A p \in Callers : lock = p <=> lpc[p] = "locked"

\* C22: the queue is read and changed only by the caller that holds the
\* lock, and no caller holds the lock while it sleeps: while one caller
\* sleeps the lock is free or held by a caller inside the with block, who
\* releases it without waiting.
C22_LockDiscipline == [][LockStep /\ LockHeldInside /\ LockHeldInside']_vars

C22_Witness ==
    \E p, q \in Callers :
        /\ lpc[p] = "sleeping" /\ wake[p] > 0
        /\ lpc[q] = "locked" /\ lock = q

\* ceil(k / n) for positive integers
Ceil(k, n) == (k + n - 1) \div n

\* C21: the k-th of k sequential calls of acquire() on a fresh limiter is
\* admitted no earlier than (ceil(k / MaxRequests) - 1) * WindowSeconds after
\* the first.
C21_MinimumElapsed ==
    \A k \in DOMAIN admitTimes :
        admitTimes[k] - admitTimes[1] >= (Ceil(k, MaxRequests) - 1) * WindowSeconds

\* all the calls admitted, the last one exactly at the bound
C21_Witness ==
    /\ Len(admitTimes) = SeqCalls
    /\ SeqCalls > MaxRequests
    /\ admitTimes[SeqCalls] - admitTimes[1]
           = (Ceil(SeqCalls, MaxRequests) - 1) * WindowSeconds

\* C27: the delay slept after the failed attempt a (counted from 0) lies
\* between BaseDelay * 2^a and BaseDelay * 2^a + JitterMax; a sleep happens
\* only between attempts: a call that exhausts its retries has slept
\* MaxRetries times and does not sleep after its last failed attempt.
C27_BackoffSchedule ==
    /\ \A a \in 0..(Len(delays) - 1) :
           /\ delays[a + 1] >= BaseDelay * 2^a
           /\ delays[a + 1] <= BaseDelay * 2^a + JitterMax
    /\ Len(delays) = IF rpc = "backoff" THEN attempt + 1 ELSE attempt
    /\ Len(delays) <= MaxRetries
    /\ (rpc = "raised" /\ raised.kind = "RuntimeError") =>
           /\ Len(delays) = MaxRetries
           /\ opCalls = MaxRetries + 1
           /\ wake[Runner] = 0

C27_Witness ==
    /\ rpc = "raised" /\ raised.kind = "RuntimeError"
    /\ Len(delays) = MaxRetries
    /\ delays[1] = BaseDelay
    /\ delays[MaxRetries] = BaseDelay * 2^(MaxRetries - 1) + JitterMax


\* C24: every record create_records writes is one of the incoming records
\* with its Link as it came, query string and fragment included; the rows
\* of the table are the rows it had and the records written.
C24_OriginalLinkStored ==
    /\ store = store0 \o created
    /\ \A i \in DOMAIN created :
           \E j \in DOMAIN records :
               /\ created[i] = FieldsOf(records[j])
               /\ HasLink(created[i]) => created[i].Link = FieldsOf(records[j]).Link

\* a Link with a query string and a Link with a fragment are written as
\* they came
C24_Witness ==
    /\ spc = "returned"
    /\ \E i, j \in DOMAIN created :
           /\ created[i] = WithLink(LinkA1Q) /\ normalize_url(LinkA1Q) # LinkA1Q
           /\ created[j] = WithLink(LinkB2F) /\ normalize_url(LinkB2F) # LinkB2F
    /\ \E k \in DOMAIN store : store[k] = WithLink(LinkA1Q)

\* the rows main() has analysed that have a Link
Linked == {i \in DOMAIN fetched : HasLink(fetched[i].fields)}
\* the normalized Link of each of them
NormalizedLinks == [i \in Linked |-> normalize_url(fetched[i].fields.Link)]
\* the rows that share their normalized Link with row i, under the table n
\* of normalized Links
SameJob(n, i) == {j \in DOMAIN n : n[j] = n[i]}
\* the ids selected for deletion
Selected_ids == {to_delete[k] : k \in DOMAIN to_delete}
\* the rows of a set that are not selected
KeptOf(rows) == {j \in rows : fetched[j].id \notin Selected_ids}
\* the list to delete has been computed
Analysed == cpc \notin {"start", "fetched"}

\* C25: of the rows that share a normalized Link with another row, all but
\* one are selected for deletion, and the one that is kept has the greatest
\* createdTime of them; a row whose normalized Link is unique and a row
\* without a Link are never selected; no id is selected twice.
C25_KeepsOnePerJob ==
    Analysed =>
        LET n == NormalizedLinks IN
        /\ Selected_ids \subseteq {fetched[i].id : i \in DOMAIN fetched}
        /\ Cardinality(Selected_ids) = Len(to_delete)
        /\ \A i \in DOMAIN fetched \ Linked : fetched[i].id \notin Selected_ids
        /\ \A i \in Linked :
               /\ Cardinality(KeptOf(SameJob(n, i))) = 1
               /\ \A j \in KeptOf(SameJob(n, i)), k \in SameJob(n, i) :
                      fetched[j].createdTime >= fetched[k].createdTime

\* three rows of one job, two of them with the greatest time: two selected
C25_Witness ==
    /\ Analysed
    /\ Len(to_delete) >= 2
    /\ LET n == NormalizedLinks IN
       \E i \in Linked :
           /\ Cardinality(SameJob(n, i)) >= 3
           /\ fetched[i].id \in Selected_ids
           /\ \E j, k \in SameJob(n, i) :
                  /\ j # k /\ fetched[j].createdTime = fetched[k].createdTime
                  /\ fetched[j].createdTime > fetched[i].createdTime

\* what C26 says of every run but the confirmation: no delete call in a
\* dry run, every deleted id is of the list to delete, and the table has
\* lost the deleted rows and no other
DeletesOnlySelected ==
    /\ cenv.dry_run => deleteCalls = 0 /\ deleted = <<>>
    /\ deleteCalls > 0 => cenv.is_configured /\ ~cenv.dry_run /\ response # NoResponse
    /\ \A k \in DOMAIN deleted : deleted[k] \in Selected_ids
    /\ IF fetched = <<>> THEN deleted = <<>> ELSE ctable = Without(fetched, deleted)

\* C26 (as amended): in a dry run no delete call is issued; in live mode a
\* delete call is issued only after the user has typed DELETE, in capitals,
\* alone or with white space before or after it; every deleted id belongs
\* to the list to delete.
C26_DeleteNeedsConfirmation ==
    /\ DeletesOnlySelected
    /\ deleteCalls > 0 =>
           \E i \in DOMAIN response :
               /\ response[i] = "DELETE"
               /\ \A j \in DOMAIN response \ {i} : response[j] = " "

C26_Witness ==
    /\ cpc = "returned"
    /\ response = <<" ", "DELETE">>
    /\ deleteCalls >= 2
    /\ Len(deleted) = Len(to_delete)

\* C26 as stated: a delete call is issued only after the user has entered
\* exactly DELETE.
C26_Original ==
    /\ DeletesOnlySelected
    /\ deleteCalls > 0 => response = <<"DELETE">>

\* C28: every source task, whichever AgentRunner it made, is admitted by the
\* one module-level limiter: the extraction calls started by all the tasks
\* together inside any window (now - W, now] number at most MaxRequests.
C28_OneLimiterForAll == Len(started) <= MaxRequests
\* the window is full of calls started by different tasks, and a further
\* task is kept waiting
C28_Witness ==
    /\ Len(started) = MaxRequests
    /\ \E i, j \in DOMAIN started : started[i].by # started[j].by
    /\ \E p \in Callers : xpc[p] = "sleeping" /\ xwake[p] > 0

\* C29: one source task calls run_agent_streamed at most 2 * (MaxRetries + 1)
\* times, and when run_agent_with_retry raises its retries-exhausted error in
\* the first cycle the task goes on to a second cycle that starts a new
\* run_agent_with_retry.
BackendBound == invocations <= 2 * (MaxRetries + 1)
ExhaustedInFirstCycle ==
    /\ kpc = "cycle"
    /\ cyc = 0
    /\ rpc = "raised"
    /\ raised.kind = "RuntimeError"
SecondCycleFollows ==
    /\ BackendBound
    /\ BackendBound'
    /\ ExhaustedInFirstCycle /\ <<kpc, cyc, rpc>>' # <<kpc, cyc, rpc>>
         => kpc' = "cycle" /\ cyc' = 1 /\ rpc' = "loop" /\ attempt' = 0
C29_BackendCallsBounded == [][SecondCycleFollows]_vars
\* both cycles ran out of retries: the bound is reached
C29_Witness ==
    /\ kpc = "done"
    /\ cyc = 1
    /\ raised.kind = "RuntimeError"
    /\ invocations = 2 * (MaxRetries + 1)

\* C30: create_records is called at most once in a run of main(), and only
\* after the scrape_sources calls of both phases, Job Boards and then Career
\* Sites, have returned with every one of their tasks in a terminal state;
\* the store changes only inside that call, with no task in flight.
FanIn == mpc = "returned" /\ \A i \in Tasks : tpc[i] = "done" /\ Terminal(i) # "none"
CreateRecordsCalled == npc # "syncing" /\ npc' = "syncing"
WriteAfterFanIn ==
    /\ npc # "phase2" /\ npc' = "phase2" => npc = "phase1" /\ FanIn
    /\ npc # "scraped" /\ npc' = "scraped" => npc = "phase2" /\ FanIn
    /\ CreateRecordsCalled => npc = "scraped" /\ FanIn /\ records' = job_records
    /\ npc = "syncing" => npc' \in {"syncing", "ended"}
    /\ npc = "ended" => npc' = "ended"
    /\ store' # store => npc = "syncing" /\ NoTaskInFlight
C30_OneWriteAfterFanIn == [][WriteAfterFanIn]_vars
\* a run with sources in both phases, whose task of the second phase failed,
\* has written the records of the first phase and returned
C30_Witness ==
    /\ ended = Returns
    /\ store # store0
    /\ \E i, j \in DOMAIN sources : JobBoards \in sources[i] /\ CareerSites \in sources[j]
    /\ \E i \in Tasks : Terminal(i) = "FAILED"
    /\ job_records # <<>>

\* C31: in create_records an incoming record whose Link is missing or empty
\* is never counted as skipped and is always put in the write batch, in its
\* place among the records of its kind, whatever the index of existing links
\* holds.
NoLink(r) == ~HasLink(r)
NoLinkIncoming(r) == ~HasLink(NormalizeRecord(r))
Filtered == spc \in {"writing", "returned"} \/ (spc = "raised" /\ chunkFailed)
C31_NoLinkNeverSkipped ==
    Filtered /\ records # <<>> =>
        LET nolink == SelectSeq(records, NoLinkIncoming)
        IN /\ SelectSeq(new_records, NoLink) = [i \in DOMAIN nolink |-> NormalizeRecord(nolink[i])]
           /\ skipped_count + Len(nolink) <= Len(records)
\* a batch with a duplicate, a record with an empty Link and one with no Link,
\* against a store that holds a link and a row without one
C31_Witness ==
    /\ Filtered
    /\ skipped_count = 1
    /\ existing_links_normalized # {}
    /\ \E i, j \in DOMAIN new_records :
          new_records[i] = WithLink(<<>>) /\ new_records[j] = WithoutLink

\* C32: when the aggregate of a run of main() is empty, or the run has no
\* storage client (hard-coded source), the sync block reads no existing
\* records and writes nothing; and create_records called with an empty list
\* returns created 0 and skipped 0 without a read or a write.
NothingToSync == job_records = <<>> \/ ~client
NoStoreAccess == reads = 0 /\ store = store0 /\ created = <<>> /\ ~chunkFailed
RECURSIVE Flat(_)
Flat(chunks) == IF chunks = <<>> THEN <<>> ELSE Head(chunks) \o Flat(Tail(chunks))
RECURSIVE Succeeded(_, _)
Succeeded(chunks, outs) ==
    IF chunks = <<>> THEN <<>>
    ELSE (IF Head(outs) = "ok" THEN Head(chunks) ELSE <<>>) \o Succeeded(Tail(chunks), Tail(outs))
C33_ChunkIsolation ==
    /\ bpc # "raised"
    /\ Len(outcomes) = Len(sent)
    /\ \A k \in DOMAIN sent :
          /\ Len(sent[k]) \in 1..UpdateChunkSize
          /\ k < Len(sent) => Len(sent[k]) = UpdateChunkSize
    /\ Flat(sent) = SubSeq(updates, 1, Len(Flat(sent)))
    /\ results = Succeeded(sent, outcomes)
    /\ bpc = "returned" => Flat(sent) = updates
\* a call has returned after three chunks, the middle one failed
C33_Witness ==
    /\ bpc = "returned"
    /\ Len(sent) = 3
    /\ outcomes = <<"ok", "raised", "ok">>
    /\ Len(updates) = 2 * UpdateChunkSize + 1

\* C35: _call_llm calls the model at most max_attempts times; it returns the
\* answer of the first call that succeeds and makes no call after it; after
\* max_attempts failed calls it raises a RuntimeError whose cause is the
\* error of the last call; it always ends.
LlmEnded == lpos \in {"returned", "raised"}
LlmBounded ==
    /\ Len(llmCalls) <= max_attempts
    /\ \A k \in DOMAIN llmCalls : llmCalls[k] = "ok" => k = Len(llmCalls) /\ lpos = "returned"
    /\ lpos = "returned" =>
          /\ llmCalls # <<>>
          /\ llmCalls[Len(llmCalls)] = "ok"
          /\ lresult.kind = "returned" /\ lresult.call = Len(llmCalls)
          /\ lresult.text \in {<<>>, <<"x">>}
    /\ lpos = "raised" =>
          /\ Len(llmCalls) = max_attempts
          /\ \A k \in DOMAIN llmCalls : llmCalls[k] \in LlmErrors
          /\ lresult.kind = "RuntimeError" /\ lresult.cause = max_attempts
C35_LlmRetryBounded == []LlmBounded /\ <>LlmEnded
\* the default number of attempts has been used up
C35_Witness ==
    /\ lpos = "raised"
    /\ max_attempts = DefaultAttempts
    /\ Len(llmCalls) = DefaultAttempts
    /\ lresult.cause = DefaultAttempts

\* C34: score_records queues exactly one update for each record that could be
\* fetched, in input order, and none for a record that could not; a failed
\* LLM call or an unparsable answer gives the Score 0 fallback update and the
\* remaining records are still scored.
ScoringRan == qpc \in {"returned", "raised"} /\ qenv = ScoringReady
ReadablePlaces == {i \in DOMAIN record_ids : Readable(record_ids[i])}
OneUpdateEach ==
    /\ {qupdates[k].id : k \in DOMAIN qupdates} = ReadablePlaces
    /\ \A k, l \in DOMAIN qupdates : k < l => qupdates[k].id < qupdates[l].id
C34_OneUpdatePerReadable == ScoringRan => qpc = "returned" /\ OneUpdateEach

\* C36: a record whose job text fails a hard rule gets a Score 0 update with
\* the reason of the first failing rule, in the order required, experience,
\* excluded, and no LLM call is made for it.
FirstFailing(text, p) ==
    IF p.required_keywords /\ ~text.required THEN "required"
    ELSE IF p.experience_levels /\ ~text.experience THEN "experience"
    ELSE IF p.excluded_keywords /\ text.excluded THEN "excluded"
    ELSE "None"
FailsHardRule(i) == Readable(record_ids[i]) /\ FirstFailing(record_ids[i].text, prefs) # "None"
C36_HardRulesShortCircuit ==
    ScoringRan =>
        \A i \in DOMAIN record_ids :
            FailsHardRule(i) =>
                /\ i \notin llmFor
                /\ \E k \in DOMAIN qupdates :
                      /\ qupdates[k].id = i
                      /\ qupdates[k].Score = 0
                      /\ qupdates[k].ScoreReason.rule = FirstFailing(record_ids[i].text, prefs)

\* C37: in run_jobboards at most 5 job boards are being processed at the
\* same time, every job board is eventually processed, and a failure of the
\* agent for one job board yields an empty link list for that board without
\* cancelling or failing the others.
AtMostFive == Cardinality(InAgent) <= BoardPermits /\ peak <= BoardPermits
AllProcessed == \A i \in Boards : jpc[i] = "done"
FailureIsEmptyList ==
    \A i \in Boards : jlinks[i] = "empty after failure" => jpc[i] = "done"
C37_BoundedFanOut == []AtMostFive /\ <>AllProcessed /\ []FailureIsEmptyList

\* C38: load_sources_with_fallback never raises and always returns a
\* non-empty list: the fallback list of three sources when loading from
\* Airtable raised or returned an empty list, and exactly the loaded list
\* otherwise.
C38_AlwaysSources ==
    fpc = "returned" =>
        /\ returned.kind = "returned"
        /\ returned.value # <<>>
        /\ loaded = LoadRaised \/ loaded.value = <<>> =>
              returned.value = FallbackSources /\ Len(returned.value) = 3
        /\ loaded.kind = "returned" /\ loaded.value # <<>> => returned = loaded
C38_Witness ==
    /\ fpc = "returned"
    /\ loaded = LoadRaised
    /\ returned = Returned(FallbackSources)

\* C39: _normalize_record returns the field mapping (the inner fields
\* mapping when present) and never raises; a Requirements value that is a
\* list, a mapping or a scalar becomes a non-empty single-line string, and the
\* key is removed when the value is None or normalizes to an empty string.
SingleLine(t) == t # <<>> /\ \A i \in DOMAIN t : t[i] # NewLine
RequirementsNormal(fields) ==
    "Requirements" \in DOMAIN fields =>
        fields.Requirements.type = "str" /\ SingleLine(fields.Requirements.text)
C39_RequirementsNeverFail ==
    zpc # "call" =>
        /\ nresult.kind = "returned"
        /\ DOMAIN nresult.value \subseteq DOMAIN FieldsOf(nrecord)
        /\ nresult.value.Link = FieldsOf(nrecord).Link
        /\ RequirementsNormal(nresult.value)
        /\ "Requirements" \in DOMAIN FieldsOf(nrecord)
              /\ FieldsOf(nrecord).Requirements.type = "None"
              => "Requirements" \notin DOMAIN nresult.value

====
